---- MODULE Spec2Model ----
(***************************************************************************)
(* MoreMoreLove plugin (src/main.py): the per-user affection record, the   *)
(* Classic and AI behaviour engines, the engine selection / fallback       *)
(* policy of _handle_action and gal_intimacy, and the state store.         *)
(*                                                                         *)
(* A command that awaits an engine between two critical sections of the    *)
(* state lock is split at those awaits (ActionStart / ActionOutcome /      *)
(* ActionScene, IntimacyStart / IntimacyScene); every other command is one *)
(* step.  Texts are modelled by the data that decides behaviour: an        *)
(* action text by its name and the keywords it contains, a narration by    *)
(* the engine path that produced it.                                       *)
(*                                                                         *)
(* Spec and SpecConc take each section of the state lock as one step.      *)
(* SpecLock and SpecLockFail open the sections up: entering the lock and   *)
(* changing memory is one step, the end of the disk write (and the exit    *)
(* from the lock) another, and the engine, weather and render calls are    *)
(* steps of their own.                                                     *)
(***************************************************************************)
EXTENDS Integers, Sequences, FiniteSets, TLC

(* ------------------------------------------------------------------ *)
(* Program constants                                                   *)
(* ------------------------------------------------------------------ *)
MAX_FAVORABILITY == 200
MIN_FAVORABILITY == 0
HISTORY_LIMIT == 12
DEFAULT_FAVORABILITY == 50
DELTA_LIMIT == 20
STAGE_ATTACHED == 80
STAGE_PASSION == 140

(* ------------------------------------------------------------------ *)
(* Bounds of the model                                                 *)
(* ------------------------------------------------------------------ *)
\* action and galintimacy commands taken up in one session (after the store
\* was loaded)
MaxCommands == 1
\* the same, when commands interleave
MaxConcCommands == 1

Users == {"u1"}
Tasks == {"t1"}

\* action texts: the fixed texts of galpark / galcinema and some galact texts
ActionTexts ==
    {"park_walk", "cinema_film", "dinner", "hug", "late", "chat", "late_dinner",
     "dinner_walk", "kiss"}

\* the keywords (of the three keyword sets) each modelled text contains
TextKeywords(text) ==
    CASE text = "park_walk" -> {"walk"}
      [] text = "dinner"    -> {"dinner"}
      [] text = "hug"       -> {"hug"}
      [] text = "late"      -> {"late"}
      [] text = "late_dinner" -> {"late", "dinner"}
      [] text = "dinner_walk" -> {"dinner", "walk"}
      [] text = "kiss"      -> {"kiss"}
      [] OTHER              -> {}

CUSTOM_POSITIVE_KEYWORDS == {"dinner", "walk", "hug"}
CUSTOM_ROMANTIC_KEYWORDS == {"kiss", "hug"}
CUSTOM_NEGATIVE_KEYWORDS == {"late"}

\* what the action commands hand to _handle_action: galcinema, and galact
\* with a text of its own (galpark differs from galcinema in its table only)
ActionCommands ==
    {[id |-> "cinema", text |-> "cinema_film"],
     [id |-> "none", text |-> "dinner"]}

\* what the provider call gives back.  ok: text_chat returned and the text is
\* not empty; shape: what the text is; delta_kind and delta: the value under
\* "favorability_delta" when the text holds a JSON object
AIResponse(ok, shape, delta_kind, delta, signal) ==
    [ok |-> ok, shape |-> shape, delta_kind |-> delta_kind, delta |-> delta,
     signal |-> signal]

AIResponses ==
    {AIResponse(FALSE, "none", "int", 0, FALSE),
     AIResponse(TRUE, "object", "int", -500, FALSE),
     AIResponse(TRUE, "object", "int", 0, FALSE),
     AIResponse(TRUE, "object", "int", 500, TRUE),
     AIResponse(TRUE, "object", "missing", 0, FALSE),
     AIResponse(TRUE, "object", "null", 0, FALSE),
     AIResponse(TRUE, "object", "word", 0, FALSE),
     AIResponse(TRUE, "plain_text", "int", 0, FALSE),
     AIResponse(TRUE, "json_array", "int", 0, FALSE),
     AIResponse(TRUE, "json_true", "int", 0, FALSE)}

\* random.choice draws
RandomDraws == 0..2

(* ------------------------------------------------------------------ *)
(* PlayerState and pure helpers                                        *)
(* ------------------------------------------------------------------ *)
PlayerState ==
    [favorability |-> DEFAULT_FAVORABILITY,
     in_gal_mode |-> FALSE,
     intimacy_unlocked |-> FALSE,
     intimacy_sessions |-> 0,
     last_action |-> "none",
     history |-> <<>>,
     pure_mode |-> FALSE]

clampBroken(value, minimum, maximum) == value

clamp(value, minimum, maximum) ==
    LET low == IF maximum < value THEN maximum ELSE value
    IN  IF minimum > low THEN minimum ELSE low

relationship_stage(favorability) ==
    IF favorability < STAGE_ATTACHED
    THEN [name |-> "ambiguous", affinity_bonus |-> 0, intimacy_bias |-> 10]
    ELSE IF favorability < STAGE_PASSION
    THEN [name |-> "attached", affinity_bonus |-> 1, intimacy_bias |-> 20]
    ELSE [name |-> "passion", affinity_bonus |-> 2, intimacy_bias |-> 35]

Narration(src, key, idx) == [src |-> src, key |-> key, idx |-> idx]
NoNarration == Narration("none", "none", 0)

\* an engine's (outcome, error) pair; base is the delta before the stage bonus
Outcome(narration, delta, signal, base) ==
    [ok |-> TRUE, narration |-> narration, favorability_delta |-> delta,
     intimacy_signal |-> signal, base |-> base]
OutcomeError ==
    [ok |-> FALSE, narration |-> NoNarration, favorability_delta |-> 0,
     intimacy_signal |-> FALSE, base |-> 0]

(* ------------------------------------------------------------------ *)
(* Classic engine                                                      *)
(* ------------------------------------------------------------------ *)
CLASSIC_ACTION_LIBRARY ==
    [park   |-> <<[delta |-> 8, intimacy |-> FALSE],
                  [delta |-> 6, intimacy |-> FALSE],
                  [delta |-> -4, intimacy |-> FALSE]>>,
     cinema |-> <<[delta |-> 9, intimacy |-> TRUE],
                  [delta |-> 4, intimacy |-> FALSE],
                  [delta |-> -6, intimacy |-> FALSE]>>]

\* the strong and the soft pure libraries hold two narrations per action id
PURE_LIBRARY_SIZE == 2

choice(size, draw) == (draw % size) + 1

\* a scoring that leaves the romantic keywords out of the score
custom_outcome_unromantic(action_text, profile) ==
    LET kws == TextKeywords(action_text)
        score == Cardinality(kws \cap CUSTOM_POSITIVE_KEYWORDS)
                 - Cardinality(kws \cap CUSTOM_NEGATIVE_KEYWORDS)
        base_delta == IF score <= -1 THEN -8
                      ELSE IF score = 0 THEN 2
                      ELSE IF score = 1 THEN 6
                      ELSE 10
    IN  Outcome(Narration("classic_custom", action_text, 0),
                clamp(base_delta + profile.affinity_bonus, -DELTA_LIMIT, DELTA_LIMIT),
                score >= 1, base_delta)

custom_outcome(action_text, profile) ==
    LET kws == TextKeywords(action_text)
        positive_count == Cardinality(kws \cap CUSTOM_POSITIVE_KEYWORDS)
        romantic_count == Cardinality(kws \cap CUSTOM_ROMANTIC_KEYWORDS)
        negative_count == Cardinality(kws \cap CUSTOM_NEGATIVE_KEYWORDS)
        score == positive_count + romantic_count - negative_count
        base_delta == IF score <= -1 THEN -8
                      ELSE IF score = 0 THEN 2
                      ELSE IF score = 1 THEN 6
                      ELSE 10
        delta == clamp(base_delta + profile.affinity_bonus, -DELTA_LIMIT, DELTA_LIMIT)
        intimacy_signal ==
            score >= 1 /\ profile.intimacy_bias + romantic_count * 10 >= 30
    IN  Outcome(Narration("classic_custom", action_text, 0), delta,
                intimacy_signal, base_delta)

pure_mode_outcome(action_text, action_id, intensity, draw) ==
    LET idx == IF action_id \in DOMAIN CLASSIC_ACTION_LIBRARY
               THEN choice(PURE_LIBRARY_SIZE, draw) ELSE 0
        key == IF idx = 0 THEN action_text ELSE action_id
        delta == IF intensity = "strong" THEN 10 ELSE 6
    IN  Outcome(Narration("classic_pure", key, idx), delta, TRUE, delta)

classic_generate_action_outcome(state, action_text, action_id, pure_mode, intensity, draw) ==
    LET profile == relationship_stage(state.favorability)
    IN  IF pure_mode
        THEN pure_mode_outcome(action_text, action_id, intensity, draw)
        ELSE IF action_id \in DOMAIN CLASSIC_ACTION_LIBRARY
        THEN LET lib == CLASSIC_ACTION_LIBRARY[action_id]
                 idx == choice(Len(lib), draw)
                 template == lib[idx]
             IN  Outcome(Narration("classic_template", action_id, idx),
                         clamp(template.delta + profile.affinity_bonus,
                               -DELTA_LIMIT, DELTA_LIMIT),
                         template.intimacy /\ profile.intimacy_bias > 20,
                         template.delta)
        ELSE custom_outcome(action_text, profile)

\* (text, error): a scene, or a refusal with a reason
Scene(narration) == [ok |-> TRUE, narration |-> narration]
SceneError(reason) == [ok |-> FALSE, narration |-> Narration("error", reason, 0)]

\* a scene generator that also refuses the attached stage
classic_generate_intimacy_scene_strict(state, pure_mode) ==
    IF pure_mode
    THEN Scene(Narration("classic_scene", "pure", 0))
    ELSE IF relationship_stage(state.favorability).intimacy_bias <= 20
    THEN SceneError("not_ready")
    ELSE Scene(Narration("classic_scene", "normal", 0))

classic_generate_intimacy_scene(state, pure_mode) ==
    IF pure_mode
    THEN Scene(Narration("classic_scene", "pure", 0))
    ELSE IF relationship_stage(state.favorability).intimacy_bias < 20
    THEN SceneError("not_ready")
    ELSE Scene(Narration("classic_scene", "normal", 0))

(* ------------------------------------------------------------------ *)
(* AI engine                                                           *)
(* ------------------------------------------------------------------ *)
\* an exception that leaves the engine call
Raised(name) ==
    [ok |-> FALSE, narration |-> Narration("exception", name, 0),
     favorability_delta |-> 0, intimacy_signal |-> FALSE, base |-> 0]

raised(outcome) == outcome.narration.src = "exception"

\* _extract_json: json.loads of the whole text, then of each balanced {...};
\* "none" is None, "object" a dict, "value" any other JSON value
extract_json(response) ==
    IF response.shape = "object" THEN "object"
    ELSE IF response.shape = "plain_text" THEN "none"
    ELSE "value"

\* int(payload.get("favorability_delta", 0))
int_of_delta(delta_kind, delta) ==
    IF delta_kind = "int" THEN [ok |-> TRUE, value |-> delta]
    ELSE IF delta_kind = "missing" THEN [ok |-> TRUE, value |-> 0]
    ELSE [ok |-> FALSE, value |-> 0]

\* provider: TRUE when a provider object was handed in; response: what the
\* provider call gave back
ai_generate_action_outcome(state, action_text, pure_mode, intensity, provider, response) ==
    IF ~provider THEN OutcomeError
    ELSE IF ~response.ok THEN OutcomeError
    ELSE LET payload == extract_json(response)
             degraded == payload = "none"
             narration == IF degraded THEN Narration("ai", "raw_text", 0)
                          ELSE Narration("ai", action_text, 0)
             parsed == IF degraded THEN [ok |-> TRUE, value |-> 0]
                       ELSE int_of_delta(response.delta_kind, response.delta)
             given == IF degraded THEN FALSE ELSE response.signal
             signal == IF pure_mode THEN TRUE ELSE given
             delta == IF pure_mode /\ parsed.value = 0
                      THEN (IF intensity = "soft" THEN 6 ELSE 8)
                      ELSE parsed.value
         IN  IF payload = "value" THEN Raised("AttributeError")
             ELSE IF ~parsed.ok
             THEN Raised(IF response.delta_kind = "null" THEN "TypeError"
                         ELSE "ValueError")
             ELSE Outcome(narration, delta, signal, parsed.value)

ai_generate_intimacy_scene(state, pure_mode, provider, response_ok) ==
    IF ~provider THEN SceneError("no_provider")
    ELSE IF ~response_ok THEN SceneError("llm_failed")
    ELSE Scene(Narration("ai_scene", IF pure_mode THEN "pure" ELSE "normal", 0))

(* ------------------------------------------------------------------ *)
(* Configuration (read-only for a whole run)                           *)
(* ------------------------------------------------------------------ *)
Config(explicit, ai, pure, intensity) ==
    [enable_explicit_mode |-> explicit, enable_ai_behavior |-> ai,
     allow_pure_erotic_mode |-> pure, erotic_intensity |-> intensity]

Configs ==
    {Config(TRUE, TRUE, TRUE, "soft"),
     Config(TRUE, FALSE, TRUE, "strong"),
     Config(TRUE, TRUE, FALSE, "soft"),
     Config(FALSE, TRUE, FALSE, "soft"),
     Config(FALSE, FALSE, TRUE, "soft")}

(* ------------------------------------------------------------------ *)
(* State                                                               *)
(* ------------------------------------------------------------------ *)
VARIABLES
    config,     \* self._config
    players,    \* self._player_states: user id -> PlayerState
    disk,       \* the "players" object of state.json
    clock,      \* source of the history entries' timestamps
    commands,   \* action and galintimacy commands taken up since the load
    tasks,      \* the commands suspended at an await, with their locals
    ev,         \* what the last step did and replied
    state_lock, \* self._state_lock: the task holding it, or "none"
    weather,    \* self._weather_system: refresh window, cache, calls in flight
    heap        \* the objects behind one live record and one copy of it

vars == <<config, players, disk, clock, commands, tasks, ev, state_lock, weather, heap>>

(* ------------------------------------------------------------------ *)
(* RealWorldWeatherSystem                                              *)
(* ------------------------------------------------------------------ *)
MIN_REFRESH_MINUTES == 10
DEFAULT_REFRESH_MINUTES == 60
TICK_MINUTES == 5
MaxWeatherTicks == 3

WeatherTasks == {"t1", "t2"}
\* the location argument: none, a city, the same city in another case and
\* with a leading blank, another city
WeatherLocations == {"", "Shanghai", " SHANGHAI", "Tokyo"}
RefreshInputs == {0, 10, 15}
FetchResults == {"data", "none", "bad_data"}

max(a, b) == IF a >= b THEN a ELSE b
strip(text) == IF text = " SHANGHAI" THEN "SHANGHAI" ELSE text
lower(text) ==
    CASE text \in {"Shanghai", "SHANGHAI"} -> "shanghai"
      [] text = "Tokyo" -> "tokyo"
      [] OTHER -> text

\* a window taken as configured
refresh_unfloored(minutes) == minutes

\* __init__ and set_refresh_minutes: the effective refresh window
effective_refresh(minutes) == max(minutes, MIN_REFRESH_MINUTES)

\* get_weather: the location asked for, and its cache key
resolve_location(location, default_location) ==
    strip(IF location # "" THEN location
          ELSE IF default_location # "" THEN default_location
          ELSE "Shanghai")
cache_key(loc) == lower(loc)

WeatherInfo(location, description) ==
    [location |-> location, description |-> description]

\* _parse_weather: no data, data without the expected fields, or a report
parse_weather(location, data) ==
    CASE data = "none" -> WeatherInfo(location, "fetch_failed")
      [] data = "bad_data" -> WeatherInfo(location, "parse_failed")
      [] OTHER -> WeatherInfo(location, "report")

NoCall == [pc |-> "idle", loc |-> "", now |-> 0, fetches |-> 0]
NoWeatherEvent ==
    [op |-> "none", task |-> "none", loc |-> "", fetches |-> 0,
     info |-> WeatherInfo("", "none")]
NoCache == [k \in {} |-> [at |-> 0, info |-> WeatherInfo("", "none")]]

\* RealWorldWeatherSystem(default_location, refresh_minutes)
WeatherAtStart(refresh_minutes) ==
    [refresh |-> effective_refresh(refresh_minutes),
     default_location |-> "",
     cache |-> NoCache,
     now |-> 0,
     calls |-> [t \in WeatherTasks |-> NoCall],
     last |-> NoWeatherEvent]

\* the window has not run out for the entry stored under key
cache_fresh(cache, key, now, refresh) ==
    /\ key \in DOMAIN cache
    /\ now - cache[key].at < refresh

cache_put(cache, key, entry) ==
    [k \in DOMAIN cache \cup {key} |-> IF k = key THEN entry ELSE cache[k]]

(* ------------------------------------------------------------------ *)
(* Mutators run under the state lock                                   *)
(* ------------------------------------------------------------------ *)
\* a trim that keeps the oldest entries instead of the newest
trim_history_keep_oldest(history) ==
    IF Len(history) > HISTORY_LIMIT
    THEN SubSeq(history, 1, HISTORY_LIMIT)
    ELSE history

trim_history(history) ==
    IF Len(history) > HISTORY_LIMIT
    THEN SubSeq(history, Len(history) - HISTORY_LIMIT + 1, Len(history))
    ELSE history

HistoryRecord(ts, action, narration, delta) ==
    [timestamp |-> ts, action |-> action, narration |-> narration, delta |-> delta]

\* the value `mutate` returns inside _apply_action_outcome
apply_returned_delta(state, outcome) ==
    clamp(outcome.favorability_delta, -DELTA_LIMIT, DELTA_LIMIT)

\* a mutate that adds the stage bonus to the returned delta once more
apply_mutate_bonus_again(state, action_text, outcome, ts) ==
    LET bonus == relationship_stage(state.favorability).affinity_bonus
        delta == clamp(outcome.favorability_delta + bonus, -DELTA_LIMIT, DELTA_LIMIT)
        new_value == clamp(state.favorability + delta, MIN_FAVORABILITY, MAX_FAVORABILITY)
        record == [timestamp |-> ts, action |-> action_text,
                   narration |-> outcome.narration, delta |-> delta]
    IN  [state EXCEPT
            !.favorability = new_value,
            !.last_action = action_text,
            !.history = IF Len(state.history) >= HISTORY_LIMIT
                        THEN Append(Tail(state.history), record)
                        ELSE Append(state.history, record),
            !.intimacy_unlocked =
                IF state.pure_mode \/ new_value >= MAX_FAVORABILITY
                THEN TRUE ELSE state.intimacy_unlocked]

\* a mutate that recomputes the unlock flag from the new favorability
apply_mutate_no_latch(state, action_text, outcome, ts) ==
    LET delta == clamp(outcome.favorability_delta, -DELTA_LIMIT, DELTA_LIMIT)
        new_value == clamp(state.favorability + delta, MIN_FAVORABILITY, MAX_FAVORABILITY)
        record == [timestamp |-> ts, action |-> action_text,
                   narration |-> outcome.narration, delta |-> delta]
    IN  [state EXCEPT
            !.favorability = new_value,
            !.last_action = action_text,
            !.history = IF Len(state.history) >= HISTORY_LIMIT
                        THEN Append(Tail(state.history), record)
                        ELSE Append(state.history, record),
            !.intimacy_unlocked = state.pure_mode \/ new_value >= MAX_FAVORABILITY]

\* the inner `mutate` of _apply_action_outcome
apply_mutate(state, action_text, outcome, ts) ==
    LET delta == clamp(outcome.favorability_delta, -DELTA_LIMIT, DELTA_LIMIT)
        new_value == clamp(state.favorability + delta, MIN_FAVORABILITY, MAX_FAVORABILITY)
        record == HistoryRecord(ts, action_text, outcome.narration, delta)
    IN  [state EXCEPT
            !.favorability = new_value,
            !.last_action = action_text,
            !.history = trim_history(Append(state.history, record)),
            !.intimacy_unlocked =
                IF state.pure_mode \/ new_value >= MAX_FAVORABILITY
                THEN TRUE ELSE state.intimacy_unlocked]

\* a recording that appends the entry but does not count the session
record_intimacy_session_uncounted(state, narration, ts) ==
    [state EXCEPT
        !.intimacy_unlocked = TRUE,
        !.last_action = "intimacy",
        !.history = IF Len(state.history) >= HISTORY_LIMIT
                    THEN Append(Tail(state.history),
                             [timestamp |-> ts, action |-> "intimacy",
                              narration |-> narration, delta |-> 0])
                    ELSE Append(state.history,
                             [timestamp |-> ts, action |-> "intimacy",
                              narration |-> narration, delta |-> 0])]

\* the body of _record_intimacy_session
record_intimacy_session(state, narration, ts) ==
    [state EXCEPT
        !.intimacy_unlocked = TRUE,
        !.intimacy_sessions = state.intimacy_sessions + 1,
        !.last_action = "intimacy",
        !.history = trim_history(
            Append(state.history, HistoryRecord(ts, "[intimacy]", narration, 0)))]

gal_start_mutate(state) ==
    IF state.in_gal_mode THEN state
    ELSE [state EXCEPT !.in_gal_mode = TRUE, !.last_action = "galstart"]

gal_exit_mutate(state) ==
    IF ~state.in_gal_mode THEN state
    ELSE [state EXCEPT !.in_gal_mode = FALSE]

\* a reset that keeps what the player had unlocked
gal_reset_keep_unlocked(state) ==
    [PlayerState EXCEPT !.intimacy_unlocked = state.intimacy_unlocked,
                        !.intimacy_sessions = state.intimacy_sessions]

\* gal_reset: self._player_states[user_id] = PlayerState()
gal_reset_mutate(state) == PlayerState

gal_pure_on_mutate(state) ==
    [state EXCEPT !.pure_mode = TRUE, !.in_gal_mode = TRUE]

gal_pure_off_mutate(state) ==
    [state EXCEPT !.pure_mode = FALSE]

\* self._player_states.setdefault(user_id, PlayerState())
LiveState(store, user) ==
    IF user \in DOMAIN store THEN store[user] ELSE PlayerState

StorePut(store, user, state) ==
    [u \in DOMAIN store \cup {user} |-> IF u = user THEN state ELSE store[u]]

(* ------------------------------------------------------------------ *)
(* Engine selection                                                    *)
(* ------------------------------------------------------------------ *)
\* an engine choice that gives the notice whenever Classic is selected
choose_behavior_engine_notice_always(cfg, prefer_ai, resolvable) ==
    IF prefer_ai /\ cfg.enable_ai_behavior /\ resolvable
    THEN [engine |-> "ai", provider |-> TRUE, notice |-> FALSE]
    ELSE [engine |-> "classic", provider |-> FALSE, notice |-> TRUE]

\* an engine choice that substitutes Classic without a notice
choose_behavior_engine_silent(cfg, prefer_ai, resolvable) ==
    IF prefer_ai /\ cfg.enable_ai_behavior /\ resolvable
    THEN [engine |-> "ai", provider |-> TRUE, notice |-> FALSE]
    ELSE [engine |-> "classic", provider |-> FALSE, notice |-> FALSE]

\* resolvable: context.get_using_provider returned a provider
choose_behavior_engine(cfg, prefer_ai, resolvable) ==
    IF prefer_ai /\ cfg.enable_ai_behavior
    THEN IF resolvable
         THEN [engine |-> "ai", provider |-> TRUE, notice |-> FALSE]
         ELSE [engine |-> "classic", provider |-> FALSE, notice |-> TRUE]
    ELSE [engine |-> "classic", provider |-> FALSE, notice |-> FALSE]

\* a trigger that follows the outcome's signal alone
should_trigger_intimacy_on_signal(cfg, new_state, outcome) ==
    outcome.intimacy_signal

\* should_trigger_intimacy in _handle_action
should_trigger_intimacy(cfg, new_state, outcome) ==
    outcome.intimacy_signal
    /\ (new_state.pure_mode
        \/ (new_state.intimacy_unlocked /\ cfg.enable_explicit_mode))

\* an auto-unlock test that does not look at pure mode
auto_unlock_any_mode(cfg, new_state) ==
    /\ new_state.intimacy_unlocked
    /\ new_state.intimacy_sessions = 0
    /\ cfg.enable_explicit_mode

auto_unlock(cfg, new_state) ==
    /\ ~new_state.pure_mode
    /\ new_state.intimacy_unlocked
    /\ new_state.intimacy_sessions = 0
    /\ cfg.enable_explicit_mode

\* _handle_action picks the scene engine from fallback_used alone
intimacy_engine(fallback_used) ==
    IF ~fallback_used THEN "ai" ELSE "classic"

(* ------------------------------------------------------------------ *)
(* Replies, suspended commands, and the record of the last step        *)
(* ------------------------------------------------------------------ *)
Plain(kind) ==
    [kind |-> kind, narration |-> NoNarration, delta |-> 0, favorability |-> 0,
     fallback_note |-> FALSE, ready_note |-> FALSE]

NoAction == [id |-> "none", text |-> "none"]

IdleTask ==
    [pc |-> "idle", user |-> "none", state |-> PlayerState, action |-> NoAction,
     engine |-> "none", provider |-> FALSE, replies |-> <<>>,
     outcome |-> OutcomeError, fallback_used |-> FALSE, new_state |-> PlayerState]

NoEvent ==
    [op |-> "init", user |-> "none", done |-> FALSE, replies |-> <<>>,
     old_favorability |-> 0, old_sessions |-> 0,
     engine |-> "none", ai_failed |-> FALSE, outcome |-> OutcomeError,
     applied |-> FALSE, shown |-> 0, snapshot |-> PlayerState,
     attempted |-> FALSE, by_signal |-> FALSE, by_auto |-> FALSE,
     scene_engine |-> "none", scene_failed |-> FALSE, classic_asked |-> FALSE,
     emitted |-> FALSE, scene |-> NoNarration, substitute_note |-> FALSE,
     args |-> <<>>, result |-> <<>>]

Event(op, user) ==
    [NoEvent EXCEPT !.op = op, !.user = user]

(* ------------------------------------------------------------------ *)
(* The store: snapshot and mutate-persist sections                     *)
(* ------------------------------------------------------------------ *)
\* a snapshot that creates the record in memory and leaves the file alone
GetStateSnapshotUnsaved(user) ==
    /\ players' = StorePut(players, user, LiveState(players, user))
    /\ disk' = disk

\* _get_state_snapshot: creates the record (and persists) on first access
GetStateSnapshot(user) ==
    /\ players' = StorePut(players, user, LiveState(players, user))
    /\ disk' = IF user \in DOMAIN players THEN disk ELSE players'

\* _mutate_state and the other lock-mutate-persist sections
MutateState(user, new_state) ==
    /\ players' = StorePut(players, user, new_state)
    /\ disk' = players'

(* ------------------------------------------------------------------ *)
(* Commands that complete in one step                                  *)
(* ------------------------------------------------------------------ *)
GalStart(u) ==
    LET old == LiveState(players, u)
        new == gal_start_mutate(old)
    IN  /\ MutateState(u, new)
        /\ ev' = [Event("galstart", u) EXCEPT
                    !.done = TRUE,
                    !.replies = <<Plain(IF old.in_gal_mode THEN "already_started"
                                        ELSE "started")>>]
        /\ UNCHANGED <<state_lock, config, weather, heap, clock, commands, tasks>>

GalExit(u) ==
    LET old == LiveState(players, u)
        new == gal_exit_mutate(old)
    IN  /\ MutateState(u, new)
        /\ ev' = [Event("galexit", u) EXCEPT
                    !.done = TRUE,
                    !.replies = <<Plain(IF old.in_gal_mode THEN "exited"
                                        ELSE "not_started")>>]
        /\ UNCHANGED <<state_lock, config, weather, heap, clock, commands, tasks>>

GalReset(u) ==
    LET old == LiveState(players, u)
    IN  /\ MutateState(u, gal_reset_mutate(old))
        /\ ev' = [Event("galreset", u) EXCEPT
                    !.snapshot = old,
                    !.done = TRUE, !.replies = <<Plain("reset")>>]
        /\ UNCHANGED <<state_lock, config, weather, heap, clock, commands, tasks>>

\* a gate that lets every instance in
pure_mode_allowed_always(cfg) == TRUE

\* _pure_mode_allowed
pure_mode_allowed(cfg) == cfg.allow_pure_erotic_mode

GalPure(u, sub_cmd) ==
    IF ~pure_mode_allowed(config)
    THEN /\ ev' = [Event("galpure", u)
                     EXCEPT !.done = TRUE, !.replies = <<Plain("pure_denied")>>]
         /\ UNCHANGED <<state_lock, config, weather, heap, players, disk, clock, commands, tasks>>
    ELSE LET old == LiveState(players, u)
             new == IF sub_cmd = "on" THEN gal_pure_on_mutate(old)
                    ELSE IF sub_cmd = "off" THEN gal_pure_off_mutate(old)
                    ELSE old
         IN  /\ IF sub_cmd \in {"on", "off"}
                THEN MutateState(u, new)
                ELSE GetStateSnapshot(u)
             /\ ev' = [Event("galpure", u) EXCEPT
                         !.done = TRUE,
                         !.replies = <<Plain(IF sub_cmd = "on" THEN "pure_on"
                                             ELSE IF sub_cmd = "off" THEN "pure_off"
                                             ELSE "pure_status")>>]
             /\ UNCHANGED <<state_lock, config, weather, heap, clock, commands, tasks>>

(* ------------------------------------------------------------------ *)
(* _handle_action (galpark, galcinema, galact)                         *)
(* ------------------------------------------------------------------ *)
\* lines 1058-1073: what follows a failed outcome call.  `first` is the chosen
\* engine's result, `second` the Classic engine's result for the same action.
outcome_fallback(engine, first, second) ==
    IF ~first.ok
    THEN [outcome |-> IF engine = "ai" THEN second ELSE first,
          fallback_used |-> engine = "ai",
          returned |-> TRUE]
    ELSE [outcome |-> first, fallback_used |-> FALSE, returned |-> FALSE]

\* a gate that looks at gal mode alone
daily_mode_gal_only(state) == ~state.in_gal_mode

\* `not state.in_gal_mode and not state.pure_mode`
daily_mode(state) == ~state.in_gal_mode /\ ~state.pure_mode

\* a mutate that works on the caller's snapshot
mutation_base_snapshot(live, snapshot) == snapshot

\* the record `mutator(state)` works on inside _mutate_state: the live one,
\* whatever the caller's snapshot holds
mutation_base(live, snapshot) == live

\* snapshot, mode gate, engine choice; suspends at the engine's await
ActionStart(t, u, a, resolvable, max_commands) ==
    LET state == LiveState(players, u)
        sel == choose_behavior_engine(config, TRUE, resolvable)
        notice == IF sel.notice THEN <<Plain("notice_no_provider")>> ELSE <<>>
    IN  /\ tasks[t].pc = "idle"
        /\ commands < max_commands
        /\ commands' = commands + 1
        /\ GetStateSnapshot(u)
        /\ IF daily_mode(state)
           THEN /\ ev' = [Event("reject", u) EXCEPT
                            !.done = TRUE, !.replies = <<Plain("reject_mode")>>]
                /\ tasks' = tasks
           ELSE /\ ev' = [Event("start", u) EXCEPT
                            !.engine = sel.engine, !.replies = notice]
                /\ tasks' = [tasks EXCEPT ![t] =
                       [IdleTask EXCEPT !.pc = "outcome", !.user = u, !.state = state,
                            !.action = a, !.engine = sel.engine,
                            !.provider = sel.provider, !.replies = notice]]
        /\ UNCHANGED <<state_lock, config, weather, heap, clock>>

\* the outcome arrives (or an exception leaves the handler): fallback, apply
\* under the lock, reply, trigger decision
ActionOutcome(t, response, draw) ==
    LET tk == tasks[t]
        u == tk.user
        classic == classic_generate_action_outcome(tk.state, tk.action.text,
                       tk.action.id, tk.state.pure_mode, config.erotic_intensity, draw)
        first == IF tk.engine = "ai"
                 THEN ai_generate_action_outcome(tk.state, tk.action.text,
                          tk.state.pure_mode, config.erotic_intensity,
                          tk.provider, response)
                 ELSE classic
        fb == outcome_fallback(tk.engine, first, classic)
        outcome == fb.outcome
        old == mutation_base(LiveState(players, u), tk.state)
        new == apply_mutate(old, tk.action.text, outcome, clock + 1)
        real_delta == apply_returned_delta(old, outcome)
        by_signal == should_trigger_intimacy(config, new, outcome)
        by_auto == auto_unlock(config, new)
        reply == [Plain("outcome") EXCEPT
                    !.narration = outcome.narration,
                    !.delta = real_delta,
                    !.favorability = new.favorability,
                    !.fallback_note = fb.fallback_used,
                    !.ready_note = by_auto]
        base == [Event("apply", u) EXCEPT
                    !.old_favorability = old.favorability,
                    !.old_sessions = old.intimacy_sessions,
                    !.engine = tk.engine, !.ai_failed = (~first.ok /\ ~raised(first)),
                    !.outcome = outcome,
                    !.snapshot = tk.state]
    IN  /\ tk.pc = "outcome"
        /\ IF raised(first)
           THEN /\ ev' = [base EXCEPT !.op = "crash", !.done = TRUE,
                            !.outcome = first]
                /\ tasks' = [tasks EXCEPT ![t] = IdleTask]
                /\ UNCHANGED <<players, disk, clock>>
           ELSE IF fb.returned \/ ~outcome.ok
           THEN LET replies == IF ~outcome.ok
                               THEN Append(tk.replies, Plain("error"))
                               ELSE tk.replies
                IN  /\ ev' = [base EXCEPT !.op = "abort",
                                !.done = TRUE, !.replies = replies]
                    /\ tasks' = [tasks EXCEPT ![t] = IdleTask]
                    /\ UNCHANGED <<players, disk, clock>>
           ELSE /\ MutateState(u, new)
                /\ clock' = clock + 1
                /\ IF by_signal \/ by_auto
                   THEN /\ tasks' = [tasks EXCEPT ![t] =
                               [tk EXCEPT !.pc = "scene", !.outcome = outcome,
                                    !.fallback_used = fb.fallback_used,
                                    !.new_state = new,
                                    !.replies = Append(tk.replies, reply)]]
                        /\ ev' = [base EXCEPT !.applied = TRUE, !.shown = real_delta,
                                    !.attempted = TRUE,
                                    !.by_signal = by_signal, !.by_auto = by_auto,
                                    !.scene_engine = intimacy_engine(fb.fallback_used),
                                    !.replies = Append(tk.replies, reply)]
                   ELSE /\ tasks' = [tasks EXCEPT ![t] = IdleTask]
                        /\ ev' = [base EXCEPT !.applied = TRUE, !.shown = real_delta,
                                    !.done = TRUE,
                                    !.replies = Append(tk.replies, reply)]
        /\ UNCHANGED <<state_lock, config, weather, heap, commands>>

\* the scene arrives: emit and record it, or report the engine's reason
ActionScene(t, response_ok) ==
    LET tk == tasks[t]
        u == tk.user
        eng == intimacy_engine(tk.fallback_used)
        intimacy_provider == IF eng = "ai" THEN tk.provider ELSE FALSE
        scene == IF eng = "ai"
                 THEN ai_generate_intimacy_scene(tk.new_state, tk.new_state.pure_mode,
                          intimacy_provider, response_ok)
                 ELSE classic_generate_intimacy_scene(tk.new_state,
                          tk.new_state.pure_mode)
        old == LiveState(players, u)
        new == record_intimacy_session(old, scene.narration, clock + 1)
        base == [Event("scene", u) EXCEPT
                    !.old_favorability = old.favorability,
                    !.old_sessions = old.intimacy_sessions,
                    !.done = TRUE, !.engine = tk.engine, !.outcome = tk.outcome,
                    !.snapshot = tk.new_state,
                    !.by_signal = should_trigger_intimacy(config, tk.new_state, tk.outcome),
                    !.by_auto = auto_unlock(config, tk.new_state),
                    !.scene_engine = eng, !.scene_failed = ~scene.ok,
                    !.classic_asked = (eng = "classic")]
    IN  /\ tk.pc = "scene"
        /\ tasks' = [tasks EXCEPT ![t] = IdleTask]
        /\ IF scene.ok
           THEN /\ MutateState(u, new)
                /\ clock' = clock + 1
                /\ ev' = [base EXCEPT !.emitted = TRUE,
                            !.scene = scene.narration,
                            !.replies = Append(tk.replies,
                                [Plain("scene") EXCEPT !.narration = scene.narration])]
           ELSE /\ ev' = [base EXCEPT
                            !.replies = Append(tk.replies,
                                [Plain("scene_error") EXCEPT !.narration = scene.narration])]
                /\ UNCHANGED <<players, disk, clock>>
        /\ UNCHANGED <<state_lock, config, weather, heap, commands>>

(* ------------------------------------------------------------------ *)
(* gal_intimacy                                                        *)
(* ------------------------------------------------------------------ *)
IntimacyStart(t, u, resolvable, max_commands) ==
    LET state == LiveState(players, u)
        sel == choose_behavior_engine(config, TRUE, resolvable)
        notice == IF sel.notice THEN <<Plain("notice_no_provider")>> ELSE <<>>
        refusal ==
            IF daily_mode(state) THEN "intimacy_not_started"
            ELSE IF ~state.pure_mode /\ state.favorability < MAX_FAVORABILITY
            THEN "intimacy_need_more"
            ELSE IF ~state.pure_mode /\ ~config.enable_explicit_mode
            THEN "intimacy_disabled"
            ELSE "none"
    IN  /\ tasks[t].pc = "idle"
        /\ commands < max_commands
        /\ commands' = commands + 1
        /\ GetStateSnapshot(u)
        /\ IF refusal # "none"
           THEN /\ ev' = [Event("intimacy_reject", u) EXCEPT
                            !.done = TRUE, !.replies = <<Plain(refusal)>>]
                /\ tasks' = tasks
           ELSE /\ ev' = [Event("intimacy_start", u) EXCEPT
                            !.engine = sel.engine, !.replies = notice]
                /\ tasks' = [tasks EXCEPT ![t] =
                       [IdleTask EXCEPT !.pc = "intimacy_scene", !.user = u,
                            !.state = state, !.engine = sel.engine,
                            !.provider = sel.provider, !.replies = notice]]
        /\ UNCHANGED <<state_lock, config, weather, heap, clock>>

IntimacyScene(t, response_ok) ==
    LET tk == tasks[t]
        u == tk.user
        classic == classic_generate_intimacy_scene(tk.state, tk.state.pure_mode)
        first == IF tk.engine = "ai"
                 THEN ai_generate_intimacy_scene(tk.state, tk.state.pure_mode,
                          tk.provider, response_ok)
                 ELSE classic
        fallback_used == ~first.ok /\ tk.engine = "ai"
        scene == IF fallback_used THEN classic ELSE first
        old == LiveState(players, u)
        new == record_intimacy_session(old, scene.narration, clock + 1)
        note == IF fallback_used THEN <<Plain("substitute_note")>> ELSE <<>>
        base == [Event("intimacy_scene", u) EXCEPT
                    !.old_favorability = old.favorability,
                    !.old_sessions = old.intimacy_sessions,
                    !.done = TRUE, !.engine = tk.engine, !.snapshot = tk.state,
                    !.scene_engine = tk.engine, !.scene_failed = ~first.ok,
                    !.classic_asked = (tk.engine = "classic" \/ fallback_used)]
    IN  /\ tk.pc = "intimacy_scene"
        /\ tasks' = [tasks EXCEPT ![t] = IdleTask]
        /\ IF scene.ok
           THEN /\ MutateState(u, new)
                /\ clock' = clock + 1
                /\ ev' = [base EXCEPT !.emitted = TRUE,
                            !.scene = scene.narration,
                            !.substitute_note = fallback_used,
                            !.replies = tk.replies \o note \o
                                <<[Plain("scene") EXCEPT !.narration = scene.narration]>>]
           ELSE /\ ev' = [base EXCEPT
                            !.replies = Append(tk.replies,
                                [Plain("scene_error") EXCEPT !.narration = scene.narration])]
                /\ UNCHANGED <<players, disk, clock>>
        /\ UNCHANGED <<state_lock, config, weather, heap, commands>>

(* ------------------------------------------------------------------ *)
(* Initial states and the specification                                *)
(* ------------------------------------------------------------------ *)
\* state files a previous session of the plugin can have left behind: a
\* player who entered gal mode and then had k actions rated +20 by the model
SavedProgress == {7, 12}

RECURSIVE Played(_)
Played(k) ==
    IF k = 0
    THEN gal_start_mutate(PlayerState)
    ELSE apply_mutate(Played(k - 1), "chat",
             Outcome(Narration("ai", "chat", 0), DELTA_LIMIT, FALSE, DELTA_LIMIT), k)

\* ... and one who went on to request an intimacy scene at full favorability
Veteran ==
    record_intimacy_session(Played(HISTORY_LIMIT),
        Narration("ai_scene", "normal", 0), HISTORY_LIMIT + 1)

EmptyStore == [u \in {} |-> PlayerState]

SavedStores ==
    {EmptyStore, [u \in Users |-> Veteran]}
    \cup {[u \in Users |-> Played(k)] : k \in SavedProgress}

StoreClock(store) ==
    IF DOMAIN store = {} THEN 0
    ELSE LET u == CHOOSE x \in DOMAIN store : TRUE
             history == store[u].history
         IN  IF history = <<>> THEN 0 ELSE history[Len(history)].timestamp

(* ------------------------------------------------------------------ *)
(* PlayerState.copy                                                    *)
(* ------------------------------------------------------------------ *)
MaxHeapEntries == 2
MaxCopies == 2
HeapDeltas == {-DELTA_LIMIT, DELTA_LIMIT}

\* one live PlayerState() and no copy of it yet: `entries` are the history
\* dicts, `lists` the list objects, a record's `history` is the index of its
\* list and a list holds the indexes of its dicts
NoHeap ==
    [entries |-> <<>>,
     lists |-> << <<>> >>,
     live |-> [PlayerState EXCEPT !.history = 1],
     copies |-> 0,
     snapshot |-> [PlayerState EXCEPT !.history = 0],
     last |-> "none"]

\* the value of a record: its fields, with the dicts its list points to
heap_view(h, state) ==
    [state EXCEPT !.history =
        IF state.history = 0 THEN <<>>
        ELSE [i \in 1..Len(h.lists[state.history]) |->
                 h.entries[h.lists[state.history][i]]]]

\* to_dict then from_dict: the scalars by value, `list(data["history"])` a
\* new list object holding the same dicts
heap_copy(h) ==
    [h EXCEPT !.lists = Append(@, h.lists[h.live.history]),
              !.snapshot = [h.live EXCEPT !.history = Len(h.lists) + 1],
              !.copies = @ + 1,
              !.last = "copy"]

\* the inner `mutate` of _apply_action_outcome on the live object: a new dict,
\* appended to the live list in place; a slice is a new list object
heap_apply(h, delta) ==
    LET addr == Len(h.entries) + 1
        record == HistoryRecord(addr, "action", NoNarration, delta)
        appended == Append(h.lists[h.live.history], addr)
        trimmed == Len(appended) > HISTORY_LIMIT
        new_value == clamp(h.live.favorability + delta, MIN_FAVORABILITY, MAX_FAVORABILITY)
    IN  [h EXCEPT
            !.entries = Append(@, record),
            !.lists = IF trimmed
                      THEN Append([@ EXCEPT ![h.live.history] = appended],
                                  SubSeq(appended, 2, Len(appended)))
                      ELSE [@ EXCEPT ![h.live.history] = appended],
            !.live = [@ EXCEPT
                        !.favorability = new_value,
                        !.last_action = "action",
                        !.history = IF trimmed THEN Len(h.lists) + 1 ELSE @,
                        !.intimacy_unlocked =
                            IF @ \/ h.live.pure_mode \/ new_value >= MAX_FAVORABILITY
                            THEN TRUE ELSE @],
            !.last = "apply"]

\* after __init__ and initialize(): _load_state has read state.json, if any
Init ==
    /\ config \in Configs
    /\ players \in SavedStores
    /\ disk = players
    /\ clock = StoreClock(players)
    /\ commands = 0
    /\ tasks = [t \in Tasks |-> IdleTask]
    /\ ev = NoEvent
    /\ state_lock = "none"
    /\ weather = WeatherAtStart(DEFAULT_REFRESH_MINUTES)
    /\ heap = NoHeap

\* no command is suspended at an await
Quiet == \A t \in Tasks : tasks[t].pc = "idle"

\* the commands, one at a time: a command is taken up when the previous one
\* has replied
Next ==
    \/ Quiet /\ \E u \in Users : GalStart(u)
    \/ Quiet /\ \E u \in Users : GalExit(u)
    \/ Quiet /\ \E u \in Users : GalReset(u)
    \/ Quiet /\ \E u \in Users, sub_cmd \in {"on", "off", "status"} : GalPure(u, sub_cmd)
    \/ \E t \in Tasks, u \in Users, a \in ActionCommands, resolvable \in BOOLEAN :
          ActionStart(t, u, a, resolvable, MaxCommands)
    \/ \E t \in Tasks, response \in AIResponses, draw \in RandomDraws :
          ActionOutcome(t, response, draw)
    \/ \E t \in Tasks, response_ok \in BOOLEAN : ActionScene(t, response_ok)
    \/ \E t \in Tasks, u \in Users, resolvable \in BOOLEAN :
          IntimacyStart(t, u, resolvable, MaxCommands)
    \/ \E t \in Tasks, response_ok \in BOOLEAN :
          IntimacyScene(t, response_ok)

Spec == Init /\ [][Next]_vars

\* the same commands with the event loop free to run other users' commands
\* while one is suspended at an await
ConcConfigs == {Config(TRUE, TRUE, TRUE, "soft")}
ConcActionCommands == {[id |-> "cinema", text |-> "cinema_film"]}
ConcAIResponses == {r \in AIResponses : r.delta # 0}

InitConc ==
    /\ Init
    /\ config \in ConcConfigs
    /\ players = [u \in Users |-> Played(HISTORY_LIMIT)]

NextConc ==
    \/ \E u \in Users : GalStart(u)
    \/ \E u \in Users : GalExit(u)
    \/ \E u \in Users : GalReset(u)
    \/ \E u \in Users, sub_cmd \in {"on", "off", "status"} : GalPure(u, sub_cmd)
    \/ \E t \in Tasks, u \in Users, a \in ConcActionCommands, resolvable \in BOOLEAN :
          ActionStart(t, u, a, resolvable, MaxConcCommands)
    \/ \E t \in Tasks, response \in ConcAIResponses, draw \in RandomDraws :
          ActionOutcome(t, response, draw)
    \/ \E t \in Tasks, response_ok \in BOOLEAN :
          ActionScene(t, response_ok)
    \/ \E t \in Tasks, u \in Users, resolvable \in BOOLEAN :
          IntimacyStart(t, u, resolvable, MaxConcCommands)
    \/ \E t \in Tasks, response_ok \in BOOLEAN :
          IntimacyScene(t, response_ok)

SpecConc == InitConc /\ [][NextConc]_vars

(* ------------------------------------------------------------------ *)
(* The state lock: sections, disk writes and calls in progress         *)
(* ------------------------------------------------------------------ *)
\* commands taken up per session in the lock specifications
MaxLockCommands == 2

LockTasks == {"t1", "t2"}
LockUsers == {"u1", "u2"}
LockConfig == Config(TRUE, TRUE, TRUE, "soft")

\* an acquire that does not wait for the holder
lock_available_always(lock) == TRUE

\* asyncio.Lock: `async with self._state_lock` enters when nobody holds it
lock_available(lock) == lock = "none"

acquire(lock, t) == t

\* an exit from the section that keeps the lock
release_skipped(lock) == lock

\* leaving `async with self._state_lock`, by return or by exception
release(lock) == "none"

\* PlayerState.to_dict
to_dict(state) ==
    [favorability |-> state.favorability,
     in_gal_mode |-> state.in_gal_mode,
     intimacy_unlocked |-> state.intimacy_unlocked,
     intimacy_sessions |-> state.intimacy_sessions,
     last_action |-> state.last_action,
     history |-> state.history,
     pure_mode |-> state.pure_mode]

\* a payload that leaves the histories out
persist_snapshot_without_history(store) ==
    [u \in DOMAIN store |-> [store[u] EXCEPT !.history = <<>>]]

\* the "players" object _persist_state_locked hands to the writer thread
persist_snapshot(store) == [u \in DOMAIN store |-> to_dict(store[u])]

\* a write whose failure is swallowed
after_write_swallowed(next, write_ok) == next

\* where the command goes on after `await asyncio.to_thread(...)`: the
\* section's continuation, or out of the handler with the exception
after_write(next, write_ok) == IF write_ok THEN next ELSE "raised"

\* the outcome and the scene the engines return in the lock specifications
LockOutcome == Outcome(Narration("ai", "chat", 0), DELTA_LIMIT, FALSE, DELTA_LIMIT)
LockScene == Narration("ai_scene", "normal", 0)

LockIdle ==
    [pc |-> "idle", user |-> "none", cmd |-> "none", state |-> PlayerState,
     payload |-> EmptyStore, next |-> "idle", replies |-> <<>>]

\* pcs at which a command has ended
LockTerminal == {"reply", "rejected", "stopped", "raised"}
\* pcs at which the task is inside `async with self._state_lock`
LockSection == {"writing", "load_locked"}
\* pcs at which an LLM call, a weather fetch or a t2i render is in progress
LockExternal == {"llm", "scene_llm", "weather", "t2i"}

Booted ==
    \A t \in DOMAIN tasks :
        tasks[t].pc \notin {"boot", "load_read", "load_locked", "boot_failed"}

\* the task goes on at pc, or ends there with its replies
Arrive(t, tk, pc, op) ==
    IF pc \in LockTerminal
    THEN /\ tasks' = [tasks EXCEPT ![t] = LockIdle]
         /\ ev' = [Event(op, tk.user) EXCEPT
                     !.done = TRUE,
                     !.replies = IF pc = "reply" THEN tk.replies
                                 ELSE IF pc = "rejected" THEN <<Plain("reject_mode")>>
                                 ELSE <<>>]
    ELSE /\ tasks' = [tasks EXCEPT ![t] = [tk EXCEPT !.pc = pc]]
         /\ ev' = [Event(op, tk.user) EXCEPT !.replies = tk.replies]

\* lock, change memory, hand the payload to the writer thread
EnterAndPersist(t, tk, store, next) ==
    /\ lock_available(state_lock)
    /\ state_lock' = acquire(state_lock, t)
    /\ players' = store
    /\ tasks' = [tasks EXCEPT ![t] =
           [tk EXCEPT !.pc = "writing", !.payload = persist_snapshot(store),
                      !.next = next]]
    /\ ev' = [Event("section", tk.user) EXCEPT !.replies = tk.replies]

\* _load_state: no file, or read it outside the lock
LoadRead(t) ==
    /\ tasks[t].pc = "boot"
    /\ IF disk = EmptyStore
       THEN Arrive(t, tasks[t], "stopped", "load")
       ELSE /\ tasks' = [tasks EXCEPT ![t] =
                   [LockIdle EXCEPT !.pc = "load_read", !.payload = disk]]
            /\ ev' = Event("load", "none")
    /\ UNCHANGED <<state_lock, config, weather, heap, players, disk, clock, commands>>

\* what an existing state file can hold besides a well-formed payload
FileShapes ==
    {"unreadable", "invalid_json", "top_not_object", "players_not_object",
     "entry_not_object", "field_not_int"}
CorruptFile(shape) == [corrupt |-> shape]
file_shape(file) ==
    IF "corrupt" \in DOMAIN file THEN file.corrupt ELSE "well_formed"

\* how _load_state ends for a file of that shape: open() or json.load raise
\* inside the try and give the warning; `payload.get` on a non-object,
\* `players.items()` on a non-object and PlayerState.from_dict on an entry
\* that is no object or holds a non-numeric favorability raise after it
load_state_result(shape) ==
    CASE shape \in {"unreadable", "invalid_json"} -> "warned"
      [] shape = "top_not_object" -> "raised"
      [] shape \in {"players_not_object", "entry_not_object", "field_not_int"}
            -> "raised_in_lock"
      [] OTHER -> "loaded"

\* _load_state after the read: warn and return, raise, or replace the player
\* map under the lock (an exception inside `async with` frees the lock at once)
LoadAssign(t) ==
    LET result == load_state_result(file_shape(tasks[t].payload)) IN
    /\ tasks[t].pc = "load_read"
    /\ result \in {"loaded", "raised_in_lock"} => lock_available(state_lock)
    /\ CASE result = "loaded" ->
              /\ state_lock' = acquire(state_lock, t)
              /\ players' = tasks[t].payload
              /\ tasks' = [tasks EXCEPT ![t] = [tasks[t] EXCEPT !.pc = "load_locked"]]
              /\ ev' = Event("load", "none")
         [] result = "warned" ->
              /\ Arrive(t, tasks[t], "stopped", "load_warned")
              /\ UNCHANGED <<state_lock, players>>
         [] OTHER ->
              /\ tasks' = [tasks EXCEPT ![t] = [LockIdle EXCEPT !.pc = "boot_failed"]]
              /\ ev' = Event("load_raised", "none")
              /\ UNCHANGED <<state_lock, players>>
    /\ UNCHANGED <<config, weather, heap, disk, clock, commands>>

LoadRelease(t) ==
    /\ tasks[t].pc = "load_locked"
    /\ state_lock' = release(state_lock)
    /\ Arrive(t, tasks[t], "stopped", "load")
    /\ UNCHANGED <<config, weather, heap, players, disk, clock, commands>>

\* gal_start (through _mutate_state) and gal_reset up to the disk write
LockMutate(t, u, cmd) ==
    LET old == LiveState(players, u)
        new == IF cmd = "galstart" THEN gal_start_mutate(old) ELSE gal_reset_mutate(old)
        reply == IF cmd = "galreset" THEN "reset"
                 ELSE IF old.in_gal_mode THEN "already_started" ELSE "started"
        tk == [LockIdle EXCEPT !.user = u, !.cmd = cmd, !.replies = <<Plain(reply)>>]
    IN  /\ tasks[t].pc = "idle" /\ Booted
        /\ commands < MaxLockCommands
        /\ commands' = commands + 1
        /\ EnterAndPersist(t, tk, StorePut(players, u, new), "reply")
        /\ UNCHANGED <<config, weather, heap, disk, clock>>

\* what follows _get_state_snapshot in _handle_action and in gal_status
after_snapshot(cmd, state) ==
    IF cmd = "status" THEN "weather"
    ELSE IF daily_mode(state) THEN "rejected" ELSE "llm"

\* _get_state_snapshot at the head of an action command or of galstatus
LockSnapshot(t, u, cmd) ==
    LET state == LiveState(players, u)
        tk == [LockIdle EXCEPT !.user = u, !.cmd = cmd, !.state = state]
        next == after_snapshot(cmd, state)
    IN  /\ tasks[t].pc = "idle" /\ Booted
        /\ commands < MaxLockCommands
        /\ commands' = commands + 1
        /\ IF u \in DOMAIN players
           THEN /\ lock_available(state_lock)
                /\ state_lock' = release(acquire(state_lock, t))
                /\ Arrive(t, tk, next, "snapshot")
                /\ UNCHANGED players
           ELSE EnterAndPersist(t, tk, StorePut(players, u, state), next)
        /\ UNCHANGED <<config, weather, heap, disk, clock>>

\* terminate: _persist_state
LockTerminate(t) ==
    /\ tasks[t].pc = "idle" /\ Booted
    /\ commands < MaxLockCommands
    /\ commands' = commands + 1
    /\ EnterAndPersist(t, [LockIdle EXCEPT !.cmd = "terminate"], players, "stopped")
    /\ UNCHANGED <<config, weather, heap, disk, clock>>

\* a persist step that takes the state lock itself, as _persist_state does
persist_locked_reacquires(lock, t) == lock_available(lock)

\* _persist_state_locked goes to the writer thread without touching the lock
persist_locked_proceeds(lock, t) == TRUE

\* the writer thread is done: the file is replaced, or the write raised
LockWriteDone(t, write_ok) ==
    LET tk == tasks[t]
    IN  /\ tk.pc = "writing"
        /\ persist_locked_proceeds(state_lock, t)
        /\ disk' = IF write_ok THEN tk.payload ELSE disk
        /\ state_lock' = release(state_lock)
        /\ Arrive(t, tk, after_write(tk.next, write_ok),
                  IF write_ok THEN "written" ELSE "write_failed")
        /\ UNCHANGED <<config, weather, heap, players, clock, commands>>

\* the engine's outcome call is over: error reply, or _apply_action_outcome
LockOutcomeDone(t, response_ok) ==
    LET tk == tasks[t]
        old == LiveState(players, tk.user)
        new == apply_mutate(old, "chat", LockOutcome, clock + 1)
        next == IF should_trigger_intimacy(config, new, LockOutcome)
                     \/ auto_unlock(config, new)
                THEN "scene_llm" ELSE "reply"
    IN  /\ tk.pc = "llm"
        /\ IF response_ok
           THEN /\ EnterAndPersist(t, [tk EXCEPT !.replies = <<Plain("outcome")>>],
                       StorePut(players, tk.user, new), next)
                /\ clock' = clock + 1
           ELSE /\ Arrive(t, [tk EXCEPT !.replies = <<Plain("error")>>], "reply", "abort")
                /\ UNCHANGED <<state_lock, players, clock>>
        /\ UNCHANGED <<config, weather, heap, disk, commands>>

\* the scene call is over: warning, or _record_intimacy_session
LockSceneDone(t, response_ok) ==
    LET tk == tasks[t]
        old == LiveState(players, tk.user)
        new == record_intimacy_session(old, LockScene, clock + 1)
    IN  /\ tk.pc = "scene_llm"
        /\ IF response_ok
           THEN /\ EnterAndPersist(t,
                       [tk EXCEPT !.replies = Append(tk.replies, Plain("scene"))],
                       StorePut(players, tk.user, new), "reply")
                /\ clock' = clock + 1
           ELSE /\ Arrive(t, [tk EXCEPT !.replies = Append(tk.replies, Plain("scene_error"))],
                       "reply", "scene")
                /\ UNCHANGED <<state_lock, players, clock>>
        /\ UNCHANGED <<config, weather, heap, disk, commands>>

\* _render_status_card: the weather fetch, then the text-to-image render
LockStatusStep(t) ==
    LET tk == tasks[t]
    IN  /\ tk.pc \in {"weather", "t2i"}
        /\ IF tk.pc = "weather"
           THEN Arrive(t, tk, "t2i", "status")
           ELSE Arrive(t, [tk EXCEPT !.replies = <<Plain("status")>>], "reply", "status")
        /\ UNCHANGED <<state_lock, config, weather, heap, players, disk, clock, commands>>

\* the state file a session finds: none, or one player at full favorability
LockSavedFiles == {EmptyStore, [u \in {"u1"} |-> Played(HISTORY_LIMIT)]}

InitLock ==
    /\ config = LockConfig
    /\ players = EmptyStore
    /\ disk \in LockSavedFiles
    /\ clock = StoreClock(disk)
    /\ commands = 0
    /\ tasks = [t \in LockTasks |->
                  IF t = "t1" THEN [LockIdle EXCEPT !.pc = "boot"] ELSE LockIdle]
    /\ ev = NoEvent
    /\ state_lock = "none"
    /\ weather = WeatherAtStart(DEFAULT_REFRESH_MINUTES)
    /\ heap = NoHeap

NextLock ==
    \/ \E t \in LockTasks : LoadRead(t)
    \/ \E t \in LockTasks : LoadAssign(t)
    \/ \E t \in LockTasks : LoadRelease(t)
    \/ \E t \in LockTasks, u \in LockUsers, cmd \in {"galstart", "galreset"} :
          LockMutate(t, u, cmd)
    \/ \E t \in LockTasks, u \in LockUsers, cmd \in {"action", "status"} :
          LockSnapshot(t, u, cmd)
    \/ \E t \in LockTasks : LockTerminate(t)
    \/ \E t \in LockTasks : LockWriteDone(t, TRUE)
    \/ \E t \in LockTasks, response_ok \in BOOLEAN : LockOutcomeDone(t, response_ok)
    \/ \E t \in LockTasks, response_ok \in BOOLEAN : LockSceneDone(t, response_ok)
    \/ \E t \in LockTasks : LockStatusStep(t)

\* disk writes succeed
SpecLock == InitLock /\ [][NextLock]_vars

\* disk writes may raise
NextLockFail ==
    \/ NextLock
    \/ \E t \in LockTasks : LockWriteDone(t, FALSE)

SpecLockFail == InitLock /\ [][NextLockFail]_vars

\* what the event loop owes a task that is under way: the load goes on, the
\* writer thread, the provider, the weather fetch and the renderer return
LockContinue(t) ==
    \/ LoadRead(t)
    \/ LoadAssign(t)
    \/ LoadRelease(t)
    \/ LockWriteDone(t, TRUE)
    \/ \E response_ok \in BOOLEAN : LockOutcomeDone(t, response_ok)
    \/ \E response_ok \in BOOLEAN : LockSceneDone(t, response_ok)
    \/ LockStatusStep(t)

\* fair scheduling, every external call returns, disk writes succeed
SpecLockLive ==
    /\ InitLock
    /\ [][NextLock]_vars
    /\ \A t \in LockTasks : WF_vars(LockContinue(t))

\* the state file may hold anything
LoadFiles == LockSavedFiles \cup {CorruptFile(shape) : shape \in FileShapes}

InitLoad ==
    /\ config = LockConfig
    /\ players = EmptyStore
    /\ disk \in LoadFiles
    /\ clock = IF file_shape(disk) = "well_formed" THEN StoreClock(disk) ELSE 0
    /\ commands = 0
    /\ tasks = [t \in LockTasks |->
                  IF t = "t1" THEN [LockIdle EXCEPT !.pc = "boot"] ELSE LockIdle]
    /\ ev = NoEvent
    /\ state_lock = "none"
    /\ weather = WeatherAtStart(DEFAULT_REFRESH_MINUTES)
    /\ heap = NoHeap

SpecLoad == InitLoad /\ [][NextLock]_vars

(* ------------------------------------------------------------------ *)
(* The weather cache over time                                         *)
(* ------------------------------------------------------------------ *)
WeatherOnly == UNCHANGED <<config, players, disk, clock, commands, tasks, ev, state_lock, heap>>

\* set_refresh_minutes
SetRefreshMinutes(minutes) ==
    /\ weather' = [weather EXCEPT !.refresh = effective_refresh(minutes),
                                  !.last = [NoWeatherEvent EXCEPT !.op = "set_refresh"]]
    /\ WeatherOnly

\* datetime.now moves on
WeatherTick ==
    /\ weather.now < MaxWeatherTicks * TICK_MINUTES
    /\ weather' = [weather EXCEPT !.now = @ + TICK_MINUTES,
                                  !.last = [NoWeatherEvent EXCEPT !.op = "tick"]]
    /\ WeatherOnly

\* get_weather up to the return of the cached entry or to `await _fetch_weather`
GetWeather(t, location) ==
    LET loc == resolve_location(location, weather.default_location)
        key == cache_key(loc)
        now == weather.now
    IN  /\ weather.calls[t].pc = "idle"
        /\ IF cache_fresh(weather.cache, key, now, weather.refresh)
           THEN weather' = [weather EXCEPT !.last =
                    [op |-> "hit", task |-> t, loc |-> loc, fetches |-> 0,
                     info |-> weather.cache[key].info]]
           ELSE weather' = [weather EXCEPT
                    !.calls[t] = [pc |-> "fetching", loc |-> loc, now |-> now,
                                  fetches |-> 1],
                    !.last = [op |-> "fetch", task |-> t, loc |-> loc, fetches |-> 1,
                              info |-> WeatherInfo("", "none")]]
        /\ WeatherOnly

\* get_weather after the fetch: parse, store under the time taken before the
\* fetch, return
FetchDone(t, data) ==
    LET call == weather.calls[t]
        info == parse_weather(call.loc, data)
    IN  /\ call.pc = "fetching"
        /\ weather' = [weather EXCEPT
               !.cache = cache_put(@, cache_key(call.loc), [at |-> call.now, info |-> info]),
               !.calls[t] = NoCall,
               !.last = [op |-> "miss", task |-> t, loc |-> call.loc,
                         fetches |-> call.fetches, info |-> info]]
        /\ WeatherOnly

InitWeather ==
    /\ config = LockConfig
    /\ players = EmptyStore
    /\ disk = EmptyStore
    /\ clock = 0
    /\ commands = 0
    /\ tasks = [t \in Tasks |-> IdleTask]
    /\ ev = NoEvent
    /\ state_lock = "none"
    /\ \E minutes \in RefreshInputs \cup {DEFAULT_REFRESH_MINUTES} :
          weather = WeatherAtStart(minutes)
    /\ heap = NoHeap

NextWeather ==
    \/ \E minutes \in RefreshInputs : SetRefreshMinutes(minutes)
    \/ WeatherTick
    \/ \E t \in WeatherTasks, location \in WeatherLocations : GetWeather(t, location)
    \/ \E t \in WeatherTasks, data \in FetchResults : FetchDone(t, data)

SpecWeather == InitWeather /\ [][NextWeather]_vars

(* ------------------------------------------------------------------ *)
(* A record and its copy as objects                                    *)
(* ------------------------------------------------------------------ *)
HeapOnly == UNCHANGED <<config, players, disk, clock, commands, tasks, ev, state_lock, weather>>

\* the state lock holder mutates the live record
HeapApply(delta) ==
    /\ Len(heap.entries) < MaxHeapEntries
    /\ heap' = heap_apply(heap, delta)
    /\ HeapOnly

\* _get_state_snapshot / _mutate_state return state.copy()
HeapCopy ==
    /\ heap.copies < MaxCopies
    /\ heap' = heap_copy(heap)
    /\ HeapOnly

\* the caller assigns a field of its snapshot
SnapshotSetField(value) ==
    /\ heap.copies > 0
    /\ heap' = [heap EXCEPT !.snapshot.favorability = value,
                            !.snapshot.intimacy_unlocked = ~@,
                            !.last = "set"]
    /\ HeapOnly

\* the caller appends a dict to its snapshot's history
SnapshotAppend(delta) ==
    LET addr == Len(heap.entries) + 1 IN
    /\ heap.copies > 0
    /\ Len(heap.entries) < MaxHeapEntries
    /\ heap' = [heap EXCEPT
           !.entries = Append(@, HistoryRecord(addr, "caller", NoNarration, delta)),
           !.lists[heap.snapshot.history] = Append(@, addr),
           !.last = "append"]
    /\ HeapOnly

\* the caller assigns a key of one dict of its snapshot's history
SnapshotEditEntry(i, delta) ==
    /\ heap.copies > 0
    /\ i \in 1..Len(heap.lists[heap.snapshot.history])
    /\ heap' = [heap EXCEPT
           !.entries[heap.lists[heap.snapshot.history][i]].delta = delta,
           !.last = "edit"]
    /\ HeapOnly

InitCopy ==
    /\ config = LockConfig
    /\ players = EmptyStore
    /\ disk = EmptyStore
    /\ clock = 0
    /\ commands = 0
    /\ tasks = [t \in Tasks |-> IdleTask]
    /\ ev = NoEvent
    /\ state_lock = "none"
    /\ weather = WeatherAtStart(DEFAULT_REFRESH_MINUTES)
    /\ heap = NoHeap

NextCopy ==
    \/ \E delta \in HeapDeltas : HeapApply(delta)
    \/ HeapCopy
    \/ \E value \in {MIN_FAVORABILITY, MAX_FAVORABILITY} : SnapshotSetField(value)
    \/ \E delta \in HeapDeltas : SnapshotAppend(delta)
    \/ \E i \in 1..MaxHeapEntries, delta \in HeapDeltas \cup {0} : SnapshotEditEntry(i, delta)

SpecCopy == InitCopy /\ [][NextCopy]_vars

(* ------------------------------------------------------------------ *)
(* The Classic engine and the prompt helpers, called on their own      *)
(* ------------------------------------------------------------------ *)
EXCERPT_SIZE == 3
LastEntry(history) == history[Len(history)]
MaxEngineHistory == 4

\* history[-3:]
recent_history(history) ==
    SubSeq(history, max(1, Len(history) - EXCERPT_SIZE + 1), Len(history))

Segment(item) ==
    [action |-> item.action, narration |-> item.narration, delta |-> item.delta]

\* _history_excerpt: the placeholder, or the segments joined; the append
\* stands after the loop, so it sees the loop variables' last values only
history_excerpt(history) ==
    IF history = <<>> THEN [placeholder |-> TRUE, segments |-> <<>>]
    ELSE [placeholder |-> FALSE,
          segments |-> <<Segment(LastEntry(recent_history(history)))>>]

\* _build_contexts: a user and an assistant message per recent entry
build_contexts(state) ==
    LET recent == recent_history(state.history) IN
    [i \in 1..(2 * Len(recent)) |->
        IF i % 2 = 1
        THEN [role |-> "user", content |-> recent[(i + 1) \div 2].action]
        ELSE [role |-> "assistant", content |-> recent[i \div 2].narration]]

EngineTexts == <<"dinner", "hug", "late", "chat", "kiss">>
EngineHistory(n) ==
    [i \in 1..n |->
        HistoryRecord(i, EngineTexts[i], Narration("ai", EngineTexts[i], 0),
                      IF EngineTexts[i] = "late" THEN -8 ELSE 6)]

\* records on both sides of each stage threshold, with histories of every
\* length from none to more than the excerpt takes
EngineStates ==
    {[PlayerState EXCEPT !.in_gal_mode = TRUE, !.favorability = f,
                         !.intimacy_unlocked = (f = MAX_FAVORABILITY),
                         !.history = EngineHistory(n)] :
        f \in {MIN_FAVORABILITY, STAGE_ATTACHED - 1, STAGE_ATTACHED,
               STAGE_PASSION - 1, STAGE_PASSION, MAX_FAVORABILITY},
        n \in 0..MaxEngineHistory}

EngineActionCommands ==
    {[id |-> "none", text |-> text] : text \in ActionTexts}
    \cup {[id |-> "cinema", text |-> "cinema_film"]}

EngineOnly ==
    UNCHANGED <<config, players, disk, clock, commands, tasks, state_lock, weather, heap>>

\* ClassicBehaviorEngine.generate_action_outcome
CallClassicOutcome(u, a, pure_mode, draw) ==
    /\ ev' = [Event("classic_outcome", u) EXCEPT
                !.snapshot = players[u],
                !.args = [action_text |-> a.text, action_id |-> a.id,
                          pure_mode |-> pure_mode],
                !.outcome = classic_generate_action_outcome(
                                players[u], a.text, a.id, pure_mode,
                                config.erotic_intensity, draw)]
    /\ EngineOnly

\* ClassicBehaviorEngine.generate_intimacy_scene
CallClassicScene(u, pure_mode) ==
    /\ ev' = [Event("classic_scene", u) EXCEPT
                !.snapshot = players[u],
                !.args = [pure_mode |-> pure_mode],
                !.result = classic_generate_intimacy_scene(players[u], pure_mode)]
    /\ EngineOnly

\* _history_excerpt(state.history)
CallHistoryExcerpt(u) ==
    /\ ev' = [Event("history_excerpt", u) EXCEPT
                !.snapshot = players[u],
                !.result = history_excerpt(players[u].history)]
    /\ EngineOnly

\* _build_contexts(event, state)
CallBuildContexts(u) ==
    /\ ev' = [Event("build_contexts", u) EXCEPT
                !.snapshot = players[u],
                !.result = build_contexts(players[u])]
    /\ EngineOnly

InitEngine ==
    /\ config \in {Config(TRUE, FALSE, TRUE, intensity) : intensity \in {"soft", "strong"}}
    /\ players \in {[u \in Users |-> state] : state \in EngineStates}
    /\ disk = players
    /\ clock = 0
    /\ commands = 0
    /\ tasks = [t \in Tasks |-> IdleTask]
    /\ ev = NoEvent
    /\ state_lock = "none"
    /\ weather = WeatherAtStart(DEFAULT_REFRESH_MINUTES)
    /\ heap = NoHeap

NextEngine ==
    \/ \E u \in Users, a \in EngineActionCommands, pure_mode \in BOOLEAN, draw \in RandomDraws :
          CallClassicOutcome(u, a, pure_mode, draw)
    \/ \E u \in Users, pure_mode \in BOOLEAN : CallClassicScene(u, pure_mode)
    \/ \E u \in Users : CallHistoryExcerpt(u)
    \/ \E u \in Users : CallBuildContexts(u)

SpecEngine == InitEngine /\ [][NextEngine]_vars

(* ------------------------------------------------------------------ *)
(* Two action commands of one user in flight together                  *)
(* ------------------------------------------------------------------ *)
MaxRaceCommands == 2
RaceTasks == {"t1", "t2"}
RaceConfigs == {Config(TRUE, TRUE, FALSE, "soft"), Config(FALSE, TRUE, FALSE, "soft")}
RaceAIResponses ==
    {r \in AIResponses : r.ok /\ r.shape = "object" /\ r.delta_kind = "int"}

InitRace ==
    /\ config \in RaceConfigs
    /\ players = [u \in Users |-> Played(7)]
    /\ disk = players
    /\ clock = StoreClock(players)
    /\ commands = 0
    /\ tasks = [t \in RaceTasks |-> IdleTask]
    /\ ev = NoEvent
    /\ state_lock = "none"
    /\ weather = WeatherAtStart(DEFAULT_REFRESH_MINUTES)
    /\ heap = NoHeap

NextRace ==
    \/ \E t \in RaceTasks, u \in Users, a \in ConcActionCommands :
          ActionStart(t, u, a, TRUE, MaxRaceCommands)
    \/ \E t \in RaceTasks, response \in RaceAIResponses, draw \in {0} :
          ActionOutcome(t, response, draw)
    \/ \E t \in RaceTasks, response_ok \in BOOLEAN :
          ActionScene(t, response_ok)

SpecRace == InitRace /\ [][NextRace]_vars

\* the same two commands with a provider that never signals intimacy and an
\* explicit-mode configuration: only the auto-unlock can ask for a scene
AutoAIResponses ==
    {AIResponse(TRUE, "object", "int", delta, FALSE) : delta \in {-500, 0, 500}}

InitAuto ==
    /\ InitRace
    /\ config.enable_explicit_mode

NextAuto ==
    \/ \E t \in RaceTasks, u \in Users, a \in ConcActionCommands :
          ActionStart(t, u, a, TRUE, MaxRaceCommands)
    \/ \E t \in RaceTasks, response \in AutoAIResponses, draw \in {0} :
          ActionOutcome(t, response, draw)
    \/ \E t \in RaceTasks, response_ok \in BOOLEAN :
          ActionScene(t, response_ok)

SpecAuto == InitAuto /\ [][NextAuto]_vars

(* ================================================================== *)
(* Claims                                                              *)
(* ================================================================== *)
Known == DOMAIN players
HasReply(kind) == \E i \in DOMAIN ev.replies : ev.replies[i].kind = kind

C2_FallbackOutcomeApplied ==
    (ev.op \in {"apply", "abort"} /\ ev.engine = "ai" /\ ev.ai_failed)
    => /\ ev.applied
       /\ ev.outcome.ok
       /\ ev.outcome.narration.src \in
              {"classic_template", "classic_custom", "classic_pure"}
       /\ players[ev.user].favorability =
              clamp(ev.old_favorability
                        + clamp(ev.outcome.favorability_delta, -DELTA_LIMIT, DELTA_LIMIT),
                    MIN_FAVORABILITY, MAX_FAVORABILITY)
       /\ players[ev.user].history # <<>>
       /\ LastEntry(players[ev.user].history).narration = ev.outcome.narration
       /\ \E i \in DOMAIN ev.replies :
              /\ ev.replies[i].kind = "outcome"
              /\ ev.replies[i].narration = ev.outcome.narration
              /\ ev.replies[i].fallback_note

\* C3 (as claimed): the delta shown to the user is new favorability minus old
\* favorability.
C3_ShownDeltaIsRealChange ==
    (ev.op = "apply" /\ ev.applied)
    => ev.shown = players[ev.user].favorability - ev.old_favorability

StageBonus(favorability) == relationship_stage(favorability).affinity_bonus

\* C4 (as claimed): whichever engine produced the outcome, new favorability is
\* clamp(old + clamp(rawEngineDelta + stageBonus(old), -20, 20), 0, 200).
C4_BonusAddedToEveryOutcome ==
    (ev.op = "apply" /\ ev.applied)
    => players[ev.user].favorability =
           clamp(ev.old_favorability
                     + clamp(ev.outcome.base + StageBonus(ev.old_favorability),
                             -DELTA_LIMIT, DELTA_LIMIT),
                 MIN_FAVORABILITY, MAX_FAVORABILITY)

\* the delta each engine path returns, from its base delta
ReturnedDelta(e) ==
    LET src == e.outcome.narration.src
        base == e.outcome.base
    IN  IF src \in {"classic_template", "classic_custom"}
        THEN clamp(base + StageBonus(e.snapshot.favorability), -DELTA_LIMIT, DELTA_LIMIT)
        ELSE IF src = "ai" /\ e.snapshot.pure_mode /\ base = 0
        THEN (IF config.erotic_intensity = "soft" THEN 6 ELSE 8)
        ELSE base

\* C4 (amended): new favorability is clamp(old + clamp(d, -20, 20), 0, 200)
\* for the delta d the engine returned; the stage bonus is in d exactly once
\* for Classic template and custom outcomes (for the favorability the action
\* read) and not at all for Classic pure and AI outcomes.
C4_BonusOnlyInClassicPaths ==
    (ev.op = "apply" /\ ev.applied)
    => players[ev.user].favorability =
           clamp(ev.old_favorability
                     + clamp(ReturnedDelta(ev), -DELTA_LIMIT, DELTA_LIMIT),
                 MIN_FAVORABILITY, MAX_FAVORABILITY)

\* C4 witness: a Classic template outcome of base delta -6, drawn at stage
\* >= 140, lowered favorability by 4: the bonus of 2 is in it once.
C4_Witness ==
    /\ ev.op = "apply" /\ ev.applied
    /\ ev.outcome.narration.src = "classic_template"
    /\ ev.old_favorability >= STAGE_PASSION
    /\ ev.outcome.base = -6
    /\ players[ev.user].favorability = ev.old_favorability - 4

\* C5: intimacy_unlocked, once true for a user, stays true through every
\* command except galreset.
C5_IntimacyLatch ==
    [][\A u \in Known :
          players[u].intimacy_unlocked
          => \/ (u \in DOMAIN players' /\ players'[u].intimacy_unlocked)
             \/ (ev'.op = "galreset" /\ ev'.user = u)]_vars

\* C5 witness: an unlocked user, not in pure mode, whose favorability an
\* action has just lowered below 200.
C5_Witness ==
    /\ ev.op = "apply" /\ ev.applied /\ ev.shown < 0
    /\ players[ev.user].intimacy_unlocked
    /\ ~players[ev.user].pure_mode
    /\ players[ev.user].favorability < MAX_FAVORABILITY

\* C6 (as claimed): with explicit mode on and the user not in pure mode, the
\* action that first brings favorability to 200 produces one intimacy scene
\* and one increment of intimacy_sessions, under every engine configuration,
\* and the auto-unlock is attempted only while no session was recorded.
C6_AutoUnlockExactlyOnce ==
    /\ (ev.op = "scene" /\ ev.by_auto /\ ~ev.by_signal
            /\ ev.snapshot.favorability = MAX_FAVORABILITY)
       => /\ ev.emitted
          /\ players[ev.user].intimacy_sessions = ev.old_sessions + 1
    /\ (ev.op \in {"apply", "scene"} /\ ev.by_auto) => ev.old_sessions = 0

\* C7: a history never holds more than 12 entries, and an append to a full
\* history drops exactly the oldest entry and keeps the order of the rest.
C7_HistoryBoundedFifo ==
    [][\A u \in DOMAIN players' :
          LET new == players'[u].history
              old == IF u \in Known THEN players[u].history ELSE <<>>
              appended ==
                  /\ ev'.user = u
                  /\ \/ (ev'.op = "apply" /\ ev'.applied)
                     \/ (ev'.op \in {"scene", "intimacy_scene"} /\ ev'.emitted)
          IN  /\ Len(old) <= HISTORY_LIMIT
              /\ Len(new) <= HISTORY_LIMIT
              /\ (appended /\ Len(old) = HISTORY_LIMIT)
                 => /\ Len(new) = HISTORY_LIMIT
                    /\ SubSeq(new, 1, HISTORY_LIMIT - 1) = Tail(old)
                    /\ LastEntry(new).timestamp = clock'
                    /\ \A i \in DOMAIN old : old[i].timestamp < clock']_vars

\* C7 witness: a full history whose oldest entry is gone and whose newest
\* entry is the thirteenth ever appended.
C7_Witness ==
    \E u \in Known :
        /\ Len(players[u].history) = HISTORY_LIMIT
        /\ players[u].history[1].timestamp = 2
        /\ LastEntry(players[u].history).timestamp = HISTORY_LIMIT + 1
        /\ ev.op = "apply"

\* the post-action state of the user the last step acted for
Post == players[ev.user]

\* C8 (as claimed): after an outcome is applied a scene generation is
\* attempted iff (a) the outcome signals intimacy and (pure mode or (unlocked
\* and explicit mode)), or (b) unlocked, no session yet and explicit mode.
C8_TriggerIffSignalOrUnlocked ==
    (ev.op = "apply" /\ ev.applied)
    => (ev.attempted <=>
           \/ /\ ev.outcome.intimacy_signal
              /\ (Post.pure_mode
                  \/ (Post.intimacy_unlocked /\ config.enable_explicit_mode))
           \/ /\ Post.intimacy_unlocked
              /\ Post.intimacy_sessions = 0
              /\ config.enable_explicit_mode)

\* C8 (amended): ... or (b) pure mode is off, unlocked, no session yet and
\* explicit mode.
C8_TriggerIffSignalOrFirstUnlock ==
    (ev.op = "apply" /\ ev.applied)
    => (ev.attempted <=>
           \/ /\ ev.outcome.intimacy_signal
              /\ (Post.pure_mode
                  \/ (Post.intimacy_unlocked /\ config.enable_explicit_mode))
           \/ /\ ~Post.pure_mode
              /\ Post.intimacy_unlocked
              /\ Post.intimacy_sessions = 0
              /\ config.enable_explicit_mode)

\* C8 witness: a scene attempted for the first unlock alone, and an outcome
\* applied to a pure-mode record without a signal (no attempt).
C8_Witness ==
    /\ ev.op = "apply" /\ ev.applied
    /\ ~ev.outcome.intimacy_signal
    /\ Post.pure_mode /\ Post.intimacy_sessions = 0
    /\ ~ev.attempted

\* C9 (as claimed): the scene of an action comes from the engine family that
\* produced the applied outcome: Classic for a Classic outcome, AI only for an
\* AI outcome.
C9_SceneEngineMatchesOutcomeEngine ==
    (ev.op = "scene")
    => /\ (ev.outcome.narration.src # "ai" => ev.scene_engine = "classic")
       /\ (ev.scene_engine = "ai" => ev.outcome.narration.src = "ai")

\* C10 (as claimed): whenever AI scene generation fails, in _handle_action and
\* in galintimacy, the Classic engine is asked next, and a scene it produces
\* is emitted together with the substitute-script note.
C10_SceneFallsBackToClassic ==
    (ev.op \in {"scene", "intimacy_scene"} /\ ev.scene_engine = "ai" /\ ev.scene_failed)
    => /\ ev.classic_asked
       /\ classic_generate_intimacy_scene(ev.snapshot, ev.snapshot.pure_mode).ok
          => (ev.emitted /\ ev.substitute_note /\ HasReply("substitute_note"))

\* C11: every emitted intimacy scene (action command or galintimacy) is
\* recorded once: one history entry with delta 0 appended, intimacy_sessions
\* plus 1, favorability, in_gal_mode and pure_mode unchanged; and
\* intimacy_sessions changes in no other way except galreset.
C11_EmittedSceneRecordedOnce ==
    [][\A u \in DOMAIN players' :
          LET old == LiveState(players, u)
              new == players'[u]
              emitted == /\ ev'.op \in {"scene", "intimacy_scene"}
                         /\ ev'.emitted /\ ev'.user = u
          IN  /\ emitted
                 => /\ new.intimacy_sessions = old.intimacy_sessions + 1
                    /\ Len(new.history) =
                         (IF Len(old.history) = HISTORY_LIMIT
                          THEN HISTORY_LIMIT ELSE Len(old.history) + 1)
                    /\ LastEntry(new.history).delta = 0
                    /\ LastEntry(new.history).narration = ev'.scene
                    /\ LastEntry(new.history).timestamp = clock'
                    /\ \A i \in DOMAIN old.history :
                           old.history[i].timestamp < clock'
                    /\ new.favorability = old.favorability
                    /\ new.in_gal_mode = old.in_gal_mode
                    /\ new.pure_mode = old.pure_mode
                    /\ \E i \in DOMAIN ev'.replies :
                           /\ ev'.replies[i].kind = "scene"
                           /\ ev'.replies[i].narration = ev'.scene
              /\ new.intimacy_sessions # old.intimacy_sessions
                 => \/ emitted
                    \/ (ev'.op = "galreset" /\ ev'.user = u)]_vars

\* C11 witness: a scene emitted by an action command, recorded as the newest
\* history entry with delta 0, and counted.
C11_Witness ==
    /\ ev.op = "scene" /\ ev.emitted
    /\ players[ev.user].intimacy_sessions = ev.old_sessions + 1
    /\ LastEntry(players[ev.user].history).narration = ev.scene
    /\ LastEntry(players[ev.user].history).delta = 0

\* C12: an action command of a user with in_gal_mode false and pure_mode
\* false gets the rejection message only and no engine call is started; if
\* either flag is true an engine call is started (so a user who left gal mode
\* with pure_mode still true is accepted).
C12_ModeGate ==
    [][ev'.op \in {"reject", "start"}
       => LET s == LiveState(players, ev'.user)
          IN  /\ (~s.in_gal_mode /\ ~s.pure_mode)
                 => /\ ev'.op = "reject"
                    /\ ev'.replies = <<Plain("reject_mode")>>
                    /\ tasks' = tasks
              /\ (s.in_gal_mode \/ s.pure_mode)
                 => /\ ev'.op = "start"
                    /\ \E t \in DOMAIN tasks :
                           /\ tasks[t].pc = "idle"
                           /\ tasks'[t].pc = "outcome"
                           /\ tasks'[t].user = ev'.user
                           /\ tasks'[t].engine \in {"ai", "classic"}]_vars

\* C12 witness: an action taken up for a user who is outside gal mode and
\* in pure mode.
C12_Witness ==
    /\ ev.op = "start"
    /\ ~players[ev.user].in_gal_mode
    /\ players[ev.user].pure_mode

\* galpure answered with the not-allowed message
PureDenied(e) == e.op = "galpure" /\ e.replies = <<Plain("pure_denied")>>

\* C13 (as claimed): a galpure refused because allow_pure_erotic_mode is
\* false, or an action refused by the mode gate (user existing or never seen
\* before), leaves the in-memory player map and the state file as they were.
C13_RefusedCommandsChangeNothing ==
    [][(PureDenied(ev') \/ ev'.op = "reject")
       => (players' = players /\ disk' = disk)]_vars

\* C13 (amended): a refused galpure leaves the player map and the state file
\* as they were, and so does a refused action of a user who has a record; a
\* refused action of a user never seen before adds that user's default record
\* to the map and writes the map to the state file, and changes nothing else.
C13_RefusedCommandsCreateAtMost ==
    [][/\ PureDenied(ev') => (players' = players /\ disk' = disk)
       /\ (ev'.op = "reject" /\ ev'.user \in DOMAIN players)
          => (players' = players /\ disk' = disk)
       /\ (ev'.op = "reject" /\ ev'.user \notin DOMAIN players)
          => /\ DOMAIN players' = DOMAIN players \cup {ev'.user}
             /\ players'[ev'.user] = PlayerState
             /\ \A u \in DOMAIN players : players'[u] = players[u]
             /\ disk' = players']_vars

\* C13 witness: the first command of the session was an action that was
\* refused, and the user's default record is in the map and in the file.
C13_Witness ==
    /\ ev.op = "reject" /\ commands = 1
    /\ players[ev.user] = PlayerState
    /\ ev.user \in DOMAIN disk /\ disk[ev.user] = PlayerState

\* the engine choice is right for every configuration and provider lookup
EngineChoiceFor(notice_when_disabled) ==
    \A cfg \in Configs, resolvable \in BOOLEAN :
        LET sel == choose_behavior_engine(cfg, TRUE, resolvable)
        IN  /\ sel.engine = "ai" <=> (cfg.enable_ai_behavior /\ resolvable)
            /\ sel.engine \in {"ai", "classic"}
            /\ sel.provider <=> sel.engine = "ai"
            /\ sel.notice <=>
                 \/ (cfg.enable_ai_behavior /\ ~resolvable)
                 \/ (notice_when_disabled /\ ~cfg.enable_ai_behavior)

\* the last step took up an action and chose its engine
EngineChosen == ev.op = "start"

\* C14 (as claimed): the AI engine is selected exactly when AI behaviour is
\* enabled and a provider is resolvable; in every other case Classic is
\* selected and the informational notice is emitted.
C14_ClassicAlwaysWithNotice ==
    /\ EngineChoiceFor(TRUE)
    /\ EngineChosen
       => /\ ev.engine = "ai" => config.enable_ai_behavior
          /\ ev.engine = "classic" <=> HasReply("notice_no_provider")

\* C14 (amended): the AI engine is selected exactly when AI behaviour is
\* enabled and a provider is resolvable; with AI enabled and no provider,
\* Classic is selected and the notice is emitted; with AI behaviour disabled,
\* Classic is selected without any notice.
C14_NoticeOnlyWhenProviderMissing ==
    /\ EngineChoiceFor(FALSE)
    /\ EngineChosen
       => /\ ev.engine = "ai" => config.enable_ai_behavior
          /\ ev.engine \in {"ai", "classic"}
          /\ HasReply("notice_no_provider")
               <=> (ev.engine = "classic" /\ config.enable_ai_behavior)
          /\ ~config.enable_ai_behavior => (ev.engine = "classic" /\ ev.replies = <<>>)

\* C14 witness: with AI behaviour disabled an action was taken up for the
\* Classic engine and nothing was said to the user.
C14_Witness ==
    /\ EngineChosen
    /\ ~config.enable_ai_behavior
    /\ ev.engine = "classic" /\ ev.replies = <<>>

\* C15: with AI behaviour enabled and no provider resolvable, an action of a
\* user in gal mode is not aborted: the reply is the notice followed by a
\* Classic outcome, that outcome is applied (favorability changed by its
\* clamped delta) and exactly one action history entry is appended.
C15_NoProviderActionProceeds ==
    [][\A t \in DOMAIN tasks :
          (/\ tasks[t].pc = "outcome" /\ tasks'[t].pc # "outcome"
           /\ tasks[t].engine = "classic" /\ config.enable_ai_behavior)
          => LET u == tasks[t].user
                 old == LiveState(players, u)
                 new == players'[u]
                 out == ev'.outcome
             IN  /\ ev'.op = "apply" /\ ev'.applied /\ ev'.user = u
                 /\ out.ok
                 /\ out.narration.src \in
                        {"classic_template", "classic_custom", "classic_pure"}
                 /\ Len(ev'.replies) = 2
                 /\ ev'.replies[1] = Plain("notice_no_provider")
                 /\ ev'.replies[2].kind = "outcome"
                 /\ ev'.replies[2].narration = out.narration
                 /\ new.favorability =
                        clamp(old.favorability
                                  + clamp(out.favorability_delta, -DELTA_LIMIT, DELTA_LIMIT),
                              MIN_FAVORABILITY, MAX_FAVORABILITY)
                 /\ Len(new.history) =
                        (IF Len(old.history) = HISTORY_LIMIT
                         THEN HISTORY_LIMIT ELSE Len(old.history) + 1)
                 /\ LastEntry(new.history).action = tasks[t].action.text
                 /\ LastEntry(new.history).narration = out.narration
                 /\ LastEntry(new.history).timestamp = clock'
                 /\ \A i \in DOMAIN old.history :
                        old.history[i].timestamp < clock']_vars

\* C15 witness: AI behaviour enabled, the Classic engine used after the
\* notice, and its outcome applied.
C15_Witness ==
    /\ ev.op = "apply" /\ ev.applied
    /\ config.enable_ai_behavior /\ ev.engine = "classic"
    /\ ev.replies[1] = Plain("notice_no_provider")
    /\ LastEntry(players[ev.user].history).narration = ev.outcome.narration

\* C16 (as claimed): whenever the provider returned non-empty text, the AI
\* engine's generate_action_outcome returns an outcome, never an error or an
\* exception: text that is not JSON gives the degraded outcome (raw text,
\* delta 0, no signal), and so does JSON that is not an object or an object
\* whose favorability_delta is missing, null or not an integer.
C16_NonEmptyTextGivesOutcome ==
    (ev.op \in {"apply", "abort", "crash"} /\ ev.engine = "ai" /\ ~ev.ai_failed)
    => /\ ev.op = "apply"
       /\ ev.outcome.ok
       /\ ev.outcome.narration.src = "ai"
       /\ ev.outcome.narration.key = "raw_text"
          => /\ ev.outcome.base = 0
             /\ ev.outcome.intimacy_signal <=> ev.snapshot.pure_mode

\* C21 (as claimed): whatever an existing state file holds, initialize() ends
\* without raising; a file that is unreadable, not JSON, or JSON of the wrong
\* shape leaves the player map empty, and only a well-formed file loads players.
C21_MalformedFileLeavesStoreEmpty ==
    /\ ev.op # "load_raised"
    /\ \A t \in DOMAIN tasks : tasks[t].pc # "boot_failed"
    /\ (ev.op \in {"load", "load_warned"} /\ ev.done /\ file_shape(disk) # "well_formed")
          => players = EmptyStore

\* C22 (as claimed): when a weather fetch fails for a location whose cache
\* still holds an earlier successful report, get_weather returns that stale
\* report, and a failed fetch is never stored in the cache as a result.
C22_FailedFetchServesStaleReport ==
    /\ [](\A k \in DOMAIN weather.cache :
             weather.cache[k].info.description = "report")
    /\ [][\A t \in WeatherTasks :
            LET key == cache_key(weather.calls[t].loc) IN
            (/\ weather.calls[t].pc = "fetching"
             /\ weather'.calls[t].pc = "idle"
             /\ key \in DOMAIN weather.cache
             /\ weather.cache[key].info.description = "report")
            => /\ weather'.last.info.description = "report"
               /\ weather'.cache[key].info.description = "report"]_vars

\* C28: the refresh window in force is never below ten minutes; a get_weather
\* call whose lower-cased location has a cache entry younger than the window
\* returns that entry and fetches nothing; every other call fetches exactly
\* once, stores the result under the lower-cased location and returns it.
C28_CacheServesWithinWindow ==
    /\ [](weather.refresh >= MIN_REFRESH_MINUTES)
    /\ [][\A t \in WeatherTasks :
            LET call == weather'.last
                key == cache_key(call.loc)
                young == /\ key \in DOMAIN weather.cache
                         /\ weather.now - weather.cache[key].at < weather.refresh
            IN  /\ (call.op = "hit" /\ call.task = t /\ call # weather.last)
                   => /\ young
                      /\ call.fetches = 0
                      /\ call.info = weather.cache[key].info
                      /\ weather'.cache = weather.cache
                      /\ weather'.calls = weather.calls
                /\ (weather.calls[t].pc = "idle" /\ weather'.calls[t].pc = "fetching")
                   => /\ ~young
                      /\ weather'.calls[t].fetches = 1
                /\ (weather.calls[t].pc = "fetching" /\ weather'.calls[t].pc = "idle")
                   => /\ call.op = "miss" /\ call.fetches = 1
                      /\ weather'.cache[key].info = call.info
                      /\ weather'.cache[key].at = weather.calls[t].now]_vars

\* C28 witness: with a window of ten minutes asked for as 0, a call for
\* " SHANGHAI" is answered from the entry stored five minutes earlier for
\* "Shanghai".
C28_Witness ==
    /\ weather.last.op = "hit"
    /\ weather.last.loc = "SHANGHAI"
    /\ weather.refresh = MIN_REFRESH_MINUTES
    /\ weather.cache["shanghai"].info.location = "Shanghai"
    /\ weather.now - weather.cache["shanghai"].at = TICK_MINUTES

\* C23: after galreset the user's record has the default value in every
\* field (favorability 50, the three flags false, no sessions, no last action,
\* empty history), which is the record a brand-new user gets on first access,
\* and the state file holds the same record.
C23_ResetGivesDefaultRecord ==
    ev.op = "galreset"
    => /\ players[ev.user].favorability = 50
       /\ ~players[ev.user].in_gal_mode
       /\ ~players[ev.user].intimacy_unlocked
       /\ ~players[ev.user].pure_mode
       /\ players[ev.user].intimacy_sessions = 0
       /\ players[ev.user].last_action = "none"
       /\ players[ev.user].history = <<>>
       /\ players[ev.user] = LiveState(EmptyStore, ev.user)
       /\ disk[ev.user] = players[ev.user]

\* C23 witness: the reset wiped a record at full favorability, unlocked, in
\* pure mode, with sessions and a full history.
C23_Witness ==
    /\ ev.op = "galreset"
    /\ ev.snapshot.favorability = MAX_FAVORABILITY
    /\ ev.snapshot.intimacy_unlocked /\ ev.snapshot.pure_mode
    /\ ev.snapshot.intimacy_sessions > 0
    /\ Len(ev.snapshot.history) = HISTORY_LIMIT
    /\ players[ev.user].favorability = DEFAULT_FAVORABILITY
    /\ disk[ev.user].history = <<>>

\* C25 (as claimed): in every reachable state a record at favorability 200
\* or in pure mode has intimacy unlocked, the state right after `galpure on`
\* included.
C25_MaxOrPureImpliesUnlocked ==
    \A u \in Known :
        (players[u].favorability = MAX_FAVORABILITY \/ players[u].pure_mode)
        => players[u].intimacy_unlocked

\* C24 (as claimed): the copy _get_state_snapshot and _mutate_state return is
\* independent of the live record: nothing the caller does to the snapshot,
\* to its history list or to one entry of that history changes the live record,
\* and a later mutation of the live record does not change the snapshot.
C24_SnapshotIndependent ==
    [][/\ heap'.last \in {"set", "append", "edit"}
          => heap_view(heap', heap'.live) = heap_view(heap, heap.live)
       /\ (heap'.last = "apply" /\ heap.copies > 0)
          => heap_view(heap', heap'.snapshot) = heap_view(heap, heap.snapshot)]_vars

\* the keyword counts of the action text the Classic engine was called with
PositiveCount == Cardinality(TextKeywords(ev.args.action_text) \cap CUSTOM_POSITIVE_KEYWORDS)
RomanticCount == Cardinality(TextKeywords(ev.args.action_text) \cap CUSTOM_ROMANTIC_KEYWORDS)
NegativeCount == Cardinality(TextKeywords(ev.args.action_text) \cap CUSTOM_NEGATIVE_KEYWORDS)
CustomCall == ev.op = "classic_outcome" /\ ev.outcome.narration.src = "classic_custom"

\* base delta by score: -8, +2, +6, +10 for <= -1, 0, 1, >= 2
ScoreTier(score) ==
    IF score <= -1 THEN -8 ELSE IF score = 0 THEN 2 ELSE IF score = 1 THEN 6 ELSE 10

\* C26 (as claimed): the custom outcome scores positive + romantic - negative
\* keyword counts, maps the score to -8/+2/+6/+10, returns base plus stage
\* bonus clamped to [-20, 20], and every text that contains exactly one keyword
\* of the positive set gets base delta +6.
C26_OnePositiveKeywordGivesSix ==
    CustomCall
    => /\ ev.outcome.base = ScoreTier(PositiveCount + RomanticCount - NegativeCount)
       /\ ev.outcome.favorability_delta =
              clamp(ev.outcome.base + StageBonus(ev.snapshot.favorability),
                    -DELTA_LIMIT, DELTA_LIMIT)
       /\ PositiveCount = 1 => ev.outcome.base = 6

\* C26 (amended): the score, the tiers and the clamped sum as claimed; base
\* delta +6 for a text with exactly one positive keyword only when it holds no
\* romantic and no negative keyword (a keyword of both the positive and the
\* romantic set counts twice).
C26_CustomScoreTiers ==
    CustomCall
    => /\ ev.outcome.base = ScoreTier(PositiveCount + RomanticCount - NegativeCount)
       /\ ev.outcome.favorability_delta =
              clamp(ev.outcome.base + StageBonus(ev.snapshot.favorability),
                    -DELTA_LIMIT, DELTA_LIMIT)
       /\ (PositiveCount = 1 /\ RomanticCount = 0 /\ NegativeCount = 0)
          => ev.outcome.base = 6

\* C26 witness: "hug", the one positive keyword of the text and a romantic
\* one as well, scored 2 at the passion stage: base 10, returned 12.
C26_Witness ==
    /\ CustomCall
    /\ PositiveCount = 1 /\ RomanticCount = 1 /\ NegativeCount = 0
    /\ ev.snapshot.favorability >= STAGE_PASSION
    /\ ev.outcome.base = 10
    /\ ev.outcome.favorability_delta = 12

\* C27: the Classic engine answers within the call, without a provider:
\* generate_action_outcome always returns an outcome; generate_intimacy_scene
\* always returns a scene in pure mode and, in normal mode, refuses exactly
\* when favorability is below 80.
C27_ClassicNeverFails ==
    /\ ev.op = "classic_outcome"
       => /\ ev.outcome.ok
          /\ ev.outcome.narration.src \in
                 {"classic_pure", "classic_template", "classic_custom"}
    /\ ev.op = "classic_scene"
       => /\ ev.args.pure_mode => ev.result.ok
          /\ ~ev.args.pure_mode => (~ev.result.ok <=> ev.snapshot.favorability < 80)
    /\ ev.op \in {"classic_outcome", "classic_scene"}
       => \A t \in DOMAIN tasks : tasks[t].pc = "idle"

\* C27 witness: in normal mode a scene was returned at favorability 80.
C27_Witness ==
    /\ ev.op = "classic_scene" /\ ~ev.args.pure_mode
    /\ ev.snapshot.favorability = 80
    /\ ev.result.ok
    /\ ev.result.narration.src = "classic_scene"

\* the entries the excerpt and the contexts are to cover: the last min(3, len)
RecentCount(history) == IF Len(history) < 3 THEN Len(history) ELSE 3

\* C29 (as claimed): _history_excerpt gives the placeholder for an empty
\* history and otherwise one segment for each of the min(3, len) most recent
\* entries, oldest first, and so covers the same entries as _build_contexts,
\* which gives one user/assistant pair for each of them.
C29_ExcerptCoversRecentEntries ==
    ev.op = "history_excerpt"
    => LET history == ev.snapshot.history
           n == RecentCount(history)
           contexts == build_contexts(ev.snapshot)
       IN  IF history = <<>>
           THEN ev.result.placeholder /\ contexts = <<>>
           ELSE /\ ~ev.result.placeholder
                /\ Len(ev.result.segments) = n
                /\ Len(contexts) = 2 * n
                /\ \A i \in 1..n :
                      /\ ev.result.segments[i].action = history[Len(history) - n + i].action
                      /\ ev.result.segments[i].delta = history[Len(history) - n + i].delta
                      /\ contexts[2 * i - 1].content = ev.result.segments[i].action
                      /\ contexts[2 * i].content = ev.result.segments[i].narration

\* favorability after the first i entries of a history that began at 50
RECURSIVE Replay(_, _)
Replay(history, i) ==
    IF i = 0 THEN DEFAULT_FAVORABILITY
    ELSE clamp(Replay(history, i - 1) + history[i].delta,
               MIN_FAVORABILITY, MAX_FAVORABILITY)

\* C30: no update is lost when two action commands of one user are in flight
\* together: each applied outcome adds its clamped delta to the favorability
\* the record has at that moment and appends its entry to the history it has
\* at that moment, so after both the history holds both entries and the
\* favorability is the two clamped deltas applied in lock order.
C30_NoLostUpdate ==
    /\ [](\A u \in Known :
            clock <= HISTORY_LIMIT
            => /\ Len(players[u].history) = clock
               /\ \A i \in 1..clock : players[u].history[i].timestamp = i
               /\ players[u].favorability = Replay(players[u].history, clock))
    /\ [][(ev'.op = "apply" /\ ev'.applied /\ players' # players)
          => LET u == ev'.user
                 delta == clamp(ev'.outcome.favorability_delta, -DELTA_LIMIT, DELTA_LIMIT)
             IN  /\ players'[u].favorability =
                        clamp(players[u].favorability + delta,
                              MIN_FAVORABILITY, MAX_FAVORABILITY)
                 /\ Len(players'[u].history) = Len(players[u].history) + 1
                 /\ SubSeq(players'[u].history, 1, Len(players[u].history))
                        = players[u].history
                 /\ LastEntry(players'[u].history).delta = delta
                 /\ disk' = players']_vars

\* C30 witness: both commands took their snapshot at 190; the other one's +20
\* was applied first (to 200), then this one's -20: 180, and both entries are
\* in the history.
C30_Witness ==
    /\ ev.op = "apply" /\ ev.applied
    /\ ev.snapshot.favorability = 190
    /\ ev.old_favorability = MAX_FAVORABILITY
    /\ ev.shown = -DELTA_LIMIT
    /\ players[ev.user].favorability = 180
    /\ Len(players[ev.user].history) = 9
    /\ players[ev.user].history[8].delta = DELTA_LIMIT
    /\ players[ev.user].history[9].delta = -DELTA_LIMIT

\* C31 (as claimed): an outcome is applied to a record only if, at that
\* moment, the record has in_gal_mode or pure_mode true and has not been reset
\* since the action took its snapshot: a galexit, galpure off or galreset that
\* completes while the action awaits its engine keeps the action from changing
\* favorability or history.
C31_ApplyOnlyWhileInGalMode ==
    [][\A t \in DOMAIN tasks :
          (/\ tasks[t].pc = "outcome"
           /\ ev'.op = "apply" /\ ev'.applied
           /\ tasks'[t] # tasks[t])
          => LET u == tasks[t].user IN
             /\ u \in Known
             /\ players[u].in_gal_mode \/ players[u].pure_mode
             /\ players[u].history = tasks[t].state.history]_vars

\* C32 (as claimed): with explicit mode on, pure mode off and no outcome
\* signalling intimacy, concurrent action commands of one user produce at most
\* one auto-unlock scene, and intimacy_sessions goes up at most once.
C32_OneAutoUnlockScene ==
    /\ [](\A u \in Known : players[u].intimacy_sessions <= 1)
    /\ [][(ev'.op = "scene" /\ ev'.emitted /\ players' # players)
          => players[ev'.user].intimacy_sessions = 0]_vars

\* C33: with a configuration that stays as it is and no pure-mode record
\* loaded, a user's pure_mode is true only if allow_pure_erotic_mode is
\* enabled; with the flag disabled no engine is called with pure_mode true and
\* no pure-mode outcome or scene is produced.
C33_PureModeOnlyWhenAllowed ==
    ~config.allow_pure_erotic_mode
    => /\ \A u \in Known : ~players[u].pure_mode
       /\ \A u \in DOMAIN disk : ~disk[u].pure_mode
       /\ \A t \in DOMAIN tasks :
             ~tasks[t].state.pure_mode /\ ~tasks[t].new_state.pure_mode
       /\ ~ev.snapshot.pure_mode
       /\ ev.outcome.narration.src # "classic_pure"
       /\ ev.scene.key # "pure"
       /\ ev.op = "galpure" => HasReply("pure_denied")

\* C33 witness: with the flag disabled, `galpure on` was answered with the
\* refusal while the user's record, at full favorability, stayed out of pure
\* mode.
C33_Witness ==
    /\ ~config.allow_pure_erotic_mode
    /\ ev.op = "galpure" /\ HasReply("pure_denied")
    /\ ev.user \in Known
    /\ players[ev.user].favorability = MAX_FAVORABILITY
    /\ ~players[ev.user].pure_mode

\* C34: when the state the command read is not in pure mode, an action
\* command emits an intimacy scene only if explicit mode is enabled and the
\* record is unlocked or at favorability 200, and galintimacy emits one only
\* if explicit mode is enabled, the record is in gal mode and at favorability
\* 200.
C34_SceneNeedsFlagAndThreshold ==
    /\ (ev.op = "scene" /\ ev.emitted /\ ~ev.snapshot.pure_mode)
       => /\ config.enable_explicit_mode
          /\ \/ ev.snapshot.intimacy_unlocked
             \/ ev.snapshot.favorability = MAX_FAVORABILITY
    /\ (ev.op = "intimacy_scene" /\ ev.emitted /\ ~ev.snapshot.pure_mode)
       => /\ config.enable_explicit_mode
          /\ ev.snapshot.in_gal_mode
          /\ ev.snapshot.favorability = MAX_FAVORABILITY

\* C34 witness: outside pure mode, an action whose outcome signalled
\* intimacy reached 200 and was followed by a scene.
C34_Witness ==
    /\ ev.op = "scene" /\ ev.emitted
    /\ ~ev.snapshot.pure_mode
    /\ ev.by_signal
    /\ config.enable_explicit_mode
    /\ ev.snapshot.favorability = MAX_FAVORABILITY
    /\ players[ev.user].intimacy_sessions = ev.old_sessions + 1

\* the tasks inside `async with self._state_lock`
InSection == {t \in DOMAIN tasks : tasks[t].pc \in LockSection}

\* C17: every write to the player map or to the state file is made by the
\* task that holds the state lock, at most one task is inside a critical
\* section at any time, and so at most one disk write is in progress.
C17_WritesUnderTheLock ==
    /\ [](/\ Cardinality(InSection) <= 1
          /\ \A t \in InSection : state_lock = t)
    /\ [][/\ players' # players
             => /\ state_lock' \in DOMAIN tasks'
                /\ tasks'[state_lock'].pc \in LockSection
          /\ disk' # disk
             => /\ state_lock \in DOMAIN tasks
                /\ tasks[state_lock].pc = "writing"
                /\ disk' = tasks[state_lock].payload]_vars

\* C17 witness: one task is writing the file under the lock, memory is ahead
\* of the file, and another command is at its engine call.
C17_Witness ==
    \E t \in DOMAIN tasks, other \in DOMAIN tasks :
        /\ t # other
        /\ tasks[t].pc = "writing" /\ state_lock = t
        /\ players # disk
        /\ tasks[other].pc = "llm"

\* C18: with disk writes succeeding, whenever no task holds the state lock
\* the players content of the state file equals the in-memory player map.
C18_FileMatchesMemoryWhenUnlocked ==
    (Booted /\ state_lock = "none") => disk = players

\* C18 witness: the lock is free after a write that put a lazily created
\* record and a played history into the file.
C18_Witness ==
    /\ ev.op = "written" /\ state_lock = "none"
    /\ "u2" \in DOMAIN disk
    /\ \E u \in DOMAIN disk : disk[u].history # <<>>
    /\ disk = players

\* C19: no task holds the state lock while an LLM call, a weather fetch or a
\* text-to-image render of that task is in progress; the lock is held only
\* across the in-memory mutation and the disk write.
C19_NoLockAcrossExternalCalls ==
    \A t \in DOMAIN tasks :
        /\ tasks[t].pc \in LockExternal => state_lock # t
        /\ state_lock = t => tasks[t].pc \in LockSection

\* C19 witness: a task is at its LLM call, having left the snapshot section,
\* while the other task holds the lock for a disk write.
C19_Witness ==
    \E t \in DOMAIN tasks, other \in DOMAIN tasks :
        /\ tasks[t].pc \in {"llm", "scene_llm"}
        /\ state_lock = other /\ other # t
        /\ tasks[other].pc = "writing"

\* C20: when the disk write inside a mutating operation fails, the failure
\* leaves the command as an error (no success reply for that step, nothing
\* further is done), and the state lock is released, so it is never held by
\* a task outside a section and later commands can acquire it.
C20_WriteFailurePropagates ==
    /\ [](state_lock # "none"
            => (state_lock \in DOMAIN tasks /\ state_lock \in InSection))
    /\ [][\A t \in DOMAIN tasks :
             (/\ tasks[t].pc = "writing" /\ tasks'[t].pc # "writing"
              /\ ev'.op = "write_failed")
             => /\ state_lock' = "none"
                /\ lock_available(state_lock')
                /\ tasks'[t] = LockIdle
                /\ ev'.done /\ ev'.replies = <<>>
                /\ disk' = disk /\ players' = players]_vars

\* C20 witness: a write has failed, the lock is free, and memory holds what
\* the file does not.
C20_Witness ==
    /\ ev.op = "write_failed" /\ ev.replies = <<>>
    /\ state_lock = "none"
    /\ players # disk

\* C35 (as claimed): a mutating operation whose disk write fails leaves the
\* user's record in memory as it was before the operation began, so memory
\* never holds a change that the state file does not hold.
C35_FailedWriteLeavesMemoryAsOnDisk ==
    [][\A t \in DOMAIN tasks :
          (/\ tasks[t].pc = "writing" /\ tasks'[t].pc # "writing"
           /\ ev'.op = "write_failed"
           /\ tasks[t].user \in DOMAIN players')
          => /\ tasks[t].user \in DOMAIN disk'
             /\ players'[tasks[t].user] = disk'[tasks[t].user]]_vars

\* C36: under fair scheduling, with every provider call, weather fetch and
\* disk write returning, every command that was taken up completes and the
\* state lock, once held, becomes free again; the lock is only ever taken when
\* it is free, by a task that is not inside a section.
C36_CommandsCompleteLockFreed ==
    /\ \A t \in LockTasks : (tasks[t].pc # "idle") ~> (tasks[t].pc = "idle")
    /\ (state_lock # "none") ~> (state_lock = "none")
    /\ [][(state_lock' # state_lock /\ state_lock' # "none")
          => /\ state_lock = "none"
             /\ state_lock' \in LockTasks
             /\ tasks[state_lock'].pc \notin LockSection]_vars

\* C36 witness: one command is inside its section, its write under way, while
\* another user's command waits at the provider for a section of its own.
C36_Witness ==
    \E t \in LockTasks, other \in LockTasks :
        /\ t # other
        /\ tasks[t].pc = "writing" /\ state_lock = t
        /\ tasks[other].pc = "llm"
        /\ tasks[other].user # tasks[t].user

====
